---- MODULE Spec2Model ----
(***************************************************************************)
(* Budget ledger (database.py) and portal listing cache                    *)
(* (portal_listings.py): the monthly API call counter, the _fetch adapter, *)
(* the two read paths get_portal_listings_sf / _stanford, the rate         *)
(* limiter, the write-behind cache file and a process restart.             *)
(***************************************************************************)
EXTENDS Integers, Sequences, FiniteSets, Bags, TLC

\* ------------------------------------------------------------------------
\* Program constants
\* ------------------------------------------------------------------------
MAX_MONTHLY_CALLS == 50
CACHE_TTL == 604800
MIN_REQUEST_INTERVAL == 5
COUNT_CACHE_TTL == 5
MAX_APARTMENTS_RETURN == 200
SCRAPE_POOL_SIZE == 400
AI_ANALYSIS_TOP_N == 20
APARTMENT_ANALYSIS_CACHE_TTL == 3600

\* ------------------------------------------------------------------------
\* Bounds of the model
\* ------------------------------------------------------------------------
MaxTicks == 1
MaxCalls == 2
MaxLedgerCalls == 3
MaxCrashes == 1
MaxRateCalls == 3
MaxBedrooms == 3
MaxDealCalls == 2
MaxDealTicks == 2
MaxExtra == 2
MaxYield == 2
StartSlack == 1
StartTime == 2000000

Threads == {"t1"}
Regions == {"sf", "stanford"}
Cities == {1, 2}
Months == {"2026-03"}
Agents == Threads \X {0, 1, 2}
Callers == {"c1", "c2", "c3"}
None == "none"
\* contents of the durable cache file: absent, or a JSON object
NoFile == [state |-> "missing", data |-> << >>]
JsonFile(d) == [state |-> "json", data |-> d]

Min(a, b) == IF a < b THEN a ELSE b
Max(a, b) == IF a > b THEN a ELSE b

\* entries[:max_return]
Take(s, n) == SubSeq(s, 1, Min(n, Len(s)))

\* ------------------------------------------------------------------------
\* Listings: raw API items, normalisation, scoring
\* ------------------------------------------------------------------------
Item(i, p, s, r) == [id |-> i, price |-> p, status |-> s, removed |-> r]

\* bodies the paid API can answer with (after the list/dict unwrapping)
ApiPayloads ==
    { << Item(1, 3000, "active", FALSE), Item(2, 2500, "", FALSE) >>,
      << Item(3, 2000, "inactive", FALSE), Item(4, 2800, "active", TRUE) >> }

is_publicly_listed(item) ==
    IF item.status # "" /\ item.status # "active" THEN FALSE
    ELSE IF item.removed THEN FALSE
    ELSE TRUE

\* In the sequence operators below each argument is bound once, as the
\* element of a singleton set, so that it is evaluated a single time.
RECURSIVE FilterListed(_)
FilterListed(s0) ==
    CHOOSE r \in { IF s = << >> THEN << >>
                   ELSE IF is_publicly_listed(Head(s))
                        THEN << Head(s) >> \o FilterListed(Tail(s))
                        ELSE FilterListed(Tail(s)) :
                   s \in { s0 } } : TRUE

normalize(item) == [id |-> item.id, price |-> item.price, scored |-> FALSE]

NormalizeListed(raw) ==
    CHOOSE r \in { [i \in 1..Len(f) |-> normalize(f[i])] : f \in { FilterListed(raw) } } : TRUE

\* _apply_portal_scores mutates every entry in place (deal_score, analysis)
apply_portal_scores(es0) ==
    CHOOSE r \in { [i \in 1..Len(es) |-> [es[i] EXCEPT !.scored = TRUE]] : es \in { es0 } } : TRUE

RECURSIVE InsertByPrice(_, _)
InsertByPrice(x, s0) ==
    CHOOSE r \in { IF s = << >> THEN << x >>
                   ELSE IF x.price < Head(s).price THEN << x >> \o s
                   ELSE << Head(s) >> \o InsertByPrice(x, Tail(s)) :
                   s \in { s0 } } : TRUE

\* all_entries.sort(key=price): stable
RECURSIVE SortByPrice(_)
SortByPrice(s0) ==
    CHOOSE r \in { IF s = << >> THEN << >>
                   ELSE InsertByPrice(s[Len(s)], SortByPrice(SubSeq(s, 1, Len(s) - 1))) :
                   s \in { s0 } } : TRUE

\* the as_completed loop of get_portal_listings_stanford: skip unlisted
\* items and ids already seen, normalise the rest
RECURSIVE MergeSeen(_, _, _)
MergeSeen(raw0, seen0, acc0) ==
    CHOOSE r \in { IF raw = << >> THEN acc
                   ELSE LET it == Head(raw) IN
                        IF ~is_publicly_listed(it) \/ it.id \in seen
                        THEN MergeSeen(Tail(raw), seen, acc)
                        ELSE MergeSeen(Tail(raw), seen \cup {it.id}, Append(acc, normalize(it))) :
                   raw \in { raw0 }, seen \in { seen0 }, acc \in { acc0 } } : TRUE

\* ------------------------------------------------------------------------
\* Budget ledger (table api_call_counter: month_year -> call_count)
\* ------------------------------------------------------------------------
get_monthly_api_call_count(db, m) == IF m \in DOMAIN db THEN db[m] ELSE 0

\* INSERT OR IGNORE ... VALUES (month, 0, now)
InsertOrIgnore_alone(db, m) == IF m \in DOMAIN db THEN db ELSE (m :> 0)
InsertOrIgnore(db, m) == IF m \in DOMAIN db THEN db ELSE (m :> 0) @@ db

\* the WHERE clause of the UPDATE
UpdateGuard_nocap(c) == TRUE
UpdateGuard(c) == c < MAX_MONTHLY_CALLS

\* cursor.rowcount of UPDATE ... SET call_count = call_count + 1 WHERE ...
UpdateRowcount(db, m) == IF m \in DOMAIN db /\ UpdateGuard(db[m]) THEN 1 ELSE 0

UpdateCount(db, m) ==
    IF UpdateRowcount(db, m) > 0 THEN [db EXCEPT ![m] = @ + 1] ELSE db

\* success = cursor.rowcount > 0
IncrementSuccess_always(rowcount) == TRUE
IncrementSuccess(rowcount) == rowcount > 0

\* increment_api_call_count: <<table after commit, return value>>
increment_api_call_count(db, m) ==
    LET d1 == InsertOrIgnore(db, m) IN
    << UpdateCount(d1, m), IncrementSuccess(UpdateRowcount(d1, m)) >>

\* DELETE FROM api_call_counter WHERE month_year != current
reset_monthly_api_counter_if_needed_all(db, m) == << >>
reset_monthly_api_counter_if_needed(db, m) ==
    [k \in (DOMAIN db) \cap {m} |-> db[k]]

\* ------------------------------------------------------------------------
\* Count cache, freshness, durable cache file
\* ------------------------------------------------------------------------
\* _get_cached_api_count: <<returned count, _api_count_cache afterwards>>
get_cached_api_count(acc, db, m, n) ==
    IF n - acc[2] < COUNT_CACHE_TTL THEN << acc[1], acc >>
    ELSE LET c == get_monthly_api_call_count(db, m) IN << c, << c, n >> >>

\* _get_cached_api_count has to query the table and the query raises
CountReadRaises(acc, ok, n) == ~ok /\ ~(n - acc[2] < COUNT_CACHE_TTL)

\* "_api_count_cache = (new_count, time.time())" inside _fetch, which has no
\* global declaration: the assignment binds a local, the module-level cache
\* keeps its value
FetchRefreshCountCache(acc, new_count, n) == acc

\* count >= MAX_MONTHLY_CALLS
Exhausted_gt(count) == count > MAX_MONTHLY_CALLS
Exhausted(count) == count >= MAX_MONTHLY_CALLS

\* now - ts < CACHE_TTL and entries
IsFresh_never(e, n) == FALSE
IsFresh(e, n) == n - e[2] < CACHE_TTL /\ e[1] # << >>

CacheKey(r) == IF r = "sf" THEN "sf_2000_5000" ELSE "stanford_1500_6500"
CacheKeys == {CacheKey(r) : r \in Regions}

\* the dict written by _write: {k: {"entries": entries, "ts": ts}}
SaveSnapshot(c) == [k \in DOMAIN c |-> [entries |-> c[k][1], ts |-> c[k][2]]]

IsJsonObject(f) == f.state = "json"

\* the key test of _load_persistent_cache
LoadAccepts_timestamp(v) == "entries" \in DOMAIN v /\ "timestamp" \in DOMAIN v
LoadAccepts(v) == "entries" \in DOMAIN v /\ "ts" \in DOMAIN v

\* _load_persistent_cache into an empty _cache
load_persistent_cache(f) ==
    IF ~IsJsonObject(f) THEN << >>
    ELSE LET d == f.data
             ks == {k \in DOMAIN d : LoadAccepts(d[k]) /\ d[k].entries # << >>}
         IN [k \in ks |-> << d[k].entries, d[k].ts >>]

\* if entries or cache_key not in _cache
StoreOverwrites_always(c, k, es) == TRUE
StoreOverwrites_missing(c, k, es) == k \notin DOMAIN c
StoreOverwrites(c, k, es) == es # << >> \/ k \notin DOMAIN c

\* ------------------------------------------------------------------------
\* State
\* ------------------------------------------------------------------------
VARIABLES
    now,               \* time.time()
    ticks, calls, crashes,
    api_key,           \* API_KEY is set
    month_year,        \* datetime.now().strftime("%Y-%m")
    api_call_counter,  \* the durable table
    api_count_cache,   \* _api_count_cache = (count, ts)
    cache,             \* _cache: key -> <<entries, ts>>
    last_request,      \* _last_request: region -> ts
    request_lock,      \* holder of _request_lock
    cache_file,        \* the durable cache file
    writers,           \* background _write threads
    pc, region, stale_entries, completed, ret,
    fpc, fres, fsucc, fout,
    \* history
    ledger0,           \* call_count when the model starts
    httpOk,            \* requests the API answered
    incOk, incNo,      \* increments committed / refused
    incTrue,           \* increment calls that returned True
    readHit,           \* state of the scope when the call read the cache
    bootHit,           \* state of the scope in the file, first read after boot
    gate,              \* outcome of the call's limit check
    bootFile, readSinceBoot,
    table_ok,          \* the counter table can be read and written
    limiter,           \* threads that call _rate_limit and nothing else
    apt, scorer,       \* a listing and the scorer that has scored it
    anthropic,         \* the _anthropic client is configured
    analysis_cache,    \* _analysis_cache: page -> scores and cached_at
    deal,              \* the last call of the deal analysis and its result
    scrape             \* a call of scrape_sf_apartments and the page it meets

scoreVars == << apt, scorer >>
dealVars == << anthropic, analysis_cache, deal >>
scrapeVars == << scrape >>
pipeVars == << scoreVars, dealVars, scrapeVars >>
auxVars == << table_ok, limiter, pipeVars >>
envVars == << ticks, calls, crashes, api_key, month_year, ledger0, auxVars >>
threadVars == << pc, region, stale_entries, completed, ret >>
fetchVars == << fpc, fres, fsucc, fout >>
histVars == << httpOk, incOk, incNo, incTrue, readHit, bootHit, gate,
               bootFile, readSinceBoot >>
vars == << now, envVars, api_call_counter, api_count_cache, cache, last_request,
           request_lock, cache_file, writers, threadVars, fetchVars, histVars >>

Count == get_monthly_api_call_count(api_call_counter, month_year)

\* classification of a scope at the time of a read, from the cache contents
CacheStateAt(c, k, n) ==
    IF k \notin DOMAIN c THEN "missing"
    ELSE IF n - c[k][2] >= CACHE_TTL THEN "stale"
    ELSE IF c[k][1] = << >> THEN "fresh_empty"
    ELSE "fresh"

\* the same for the file the process booted from
FileStateAt(f, k, n) ==
    IF ~IsJsonObject(f) THEN "missing"
    ELSE IF k \notin DOMAIN f.data THEN "missing"
    ELSE IF n - f.data[k].ts >= CACHE_TTL THEN "stale"
    ELSE IF f.data[k].entries = << >> THEN "fresh_empty"
    ELSE "fresh"

SampleEntries == apply_portal_scores(NormalizeListed(
    << Item(2, 2500, "", FALSE), Item(1, 3000, "active", FALSE) >>))

\* cache files left behind by an earlier run of the process: none, one with
\* an entry one second short of the TTL, one with an entry just expired
InitFiles ==
    { NoFile,
      JsonFile(SaveSnapshot(CacheKey("sf") :>
                  << SampleEntries, StartTime - CACHE_TTL + 1 >>)),
      JsonFile(SaveSnapshot(CacheKey("sf") :>
                  << SampleEntries, StartTime - CACHE_TTL >>)) }

\* ledger tables left behind by an earlier run in the same period
InitLedgers ==
    { << >> } \cup
    { (m :> c) : m \in Months, c \in (MAX_MONTHLY_CALLS - StartSlack)..MAX_MONTHLY_CALLS }

\* module-level state of a freshly imported process
Boot ==
    /\ api_count_cache = << 0, 0 >>
    /\ cache = load_persistent_cache(cache_file)
    /\ last_request = << >>
    /\ request_lock = None
    /\ writers = EmptyBag
    /\ pc = [t \in Threads |-> "idle"]
    /\ region = [t \in Threads |-> "sf"]
    /\ stale_entries = [t \in Threads |-> << >>]
    /\ completed = [t \in Threads |-> << >>]
    /\ ret = [t \in Threads |-> << >>]
    /\ fpc = [a \in Agents |-> "idle"]
    /\ fres = [a \in Agents |-> << >>]
    /\ fsucc = [a \in Agents |-> FALSE]
    /\ fout = [a \in Agents |-> None]
    /\ readHit = [t \in Threads |-> None]
    /\ bootHit = [t \in Threads |-> None]
    /\ gate = [t \in Threads |-> None]
    /\ bootFile = cache_file
    /\ readSinceBoot = {}

InitPortal ==
    /\ now = StartTime
    /\ ticks = 0 /\ calls = 0 /\ crashes = 0
    /\ api_key \in BOOLEAN
    /\ month_year \in Months
    /\ \E db \in InitLedgers :
          api_call_counter = reset_monthly_api_counter_if_needed(db, month_year)
    /\ cache_file \in InitFiles
    /\ ledger0 = Count
    /\ httpOk = 0 /\ incOk = 0 /\ incNo = 0 /\ incTrue = 0
    /\ Boot

\* ------------------------------------------------------------------------
\* Heuristic scoring: _compute_discount_and_score and _score_portal_listing
\* ------------------------------------------------------------------------
\* an optional value: None, or a value
Nothing == << >>
Some(v) == << v >>
Val(o) == o[1]

\* get_neighborhood_market_rates(): rent by bedroom bucket (studio, 1br, 2br,
\* 3br) of the neighbourhoods the listings below name, and the default row
get_neighborhood_market_rates ==
    ("mission" :> << 2300, 2900, 3900, 4800 >>) @@
    ("soma" :> << 2500, 3200, 4400, 5200 >>) @@
    ("inner sunset" :> << 2100, 2600, 3500, 4400 >>) @@
    ("default" :> << 2300, 2900, 3900, 4900 >>)

\* market_rates.get(hood_key, market_rates["default"]) for a neighbourhood
\* string; apt.get("neighborhood") or "" sends None to the default row
HoodRates(rates, hood) ==
    IF hood \in DOMAIN rates THEN rates[hood] ELSE rates["default"]

\* bed_key: "studio" if bedrooms == 0 else f"{min(bedrooms, 3)}br"
BedKey(bedrooms) == Min(bedrooms, 3) + 1

MarketRateOf(rates, a) == HoodRates(rates, a.neighborhood)[BedKey(Val(a.bedrooms))]

\* n / d rounded to an integer, halves to the even neighbour (n >= 0, d > 0)
RoundHalfEven(n, d) ==
    LET q == n \div d
        r == n % d
    IN IF 2 * r < d THEN q
       ELSE IF 2 * r > d THEN q + 1
       ELSE IF q % 2 = 0 THEN q ELSE q + 1

\* the quotient lies exactly between two tenths: round() then decides on the
\* binary value of the float
IsTie(price, market) ==
    LET n == IF market >= price THEN market - price ELSE price - market
    IN 2 * ((n * 1000) % market) = market

\* round((market_rate - price) / market_rate * 100, 1) if market_rate else 0,
\* in tenths of a percent
DiscountTenths_reversed(price, market) ==
    IF market = 0 THEN 0
    ELSE IF market >= price THEN -RoundHalfEven((market - price) * 1000, market)
    ELSE RoundHalfEven((price - market) * 1000, market)
DiscountTenths(price, market) ==
    IF market = 0 THEN 0
    ELSE IF market >= price THEN RoundHalfEven((market - price) * 1000, market)
    ELSE -RoundHalfEven((price - market) * 1000, market)

\* int(discount_pct): the fraction is cut off, towards zero
IntOf(d10) == IF d10 >= 0 THEN d10 \div 10 ELSE -((-d10) \div 10)

\* min(100, max(0, base))
Clamp(base) == Min(100, Max(0, base))

\* the laundry and parking bonuses of _compute_discount_and_score
ScraperBonus(a) ==
    (IF a.laundry_type = "in_unit" THEN 3
     ELSE IF a.laundry_type = "in_building" THEN 1 ELSE 0)
    + (IF a.parking THEN 2 ELSE 0)

\* the bonuses of _score_portal_listing: laundry, parking, baths per
\* bedroom, sqft per bedroom
PortalBonus(a) ==
    LET beds == Val(a.bedrooms) IN
    (IF a.laundry_type = "in_unit" THEN 6
     ELSE IF a.laundry_type = "in_building" THEN 2 ELSE 0)
    + (IF a.parking THEN 4 ELSE 0)
    + (IF a.bathrooms # Nothing /\ beds > 0
       THEN IF Val(a.bathrooms) >= beds THEN 3
            ELSE IF 4 * Val(a.bathrooms) >= 3 * beds THEN 1 ELSE 0
       ELSE 0)
    + (IF a.sqft # 0 /\ beds > 0
       THEN IF a.sqft >= 600 * beds THEN 2
            ELSE IF a.sqft >= 500 * beds THEN 1 ELSE 0
       ELSE 0)

\* the listing has a price and a bedroom count
IsScoreable(a) == a.price # 0 /\ a.bedrooms # Nothing

\* the early returns shared by both scorers
Unscoreable(a) ==
    IF a.price = 0
    THEN [a EXCEPT !.deal_score = Some(0),
                   !.deal_analysis = "Price information missing.",
                   !.discount_pct = Nothing]
    ELSE [a EXCEPT !.deal_score = Some(40),
                   !.deal_analysis = "Bedroom count not specified",
                   !.discount_pct = Nothing]

\* _compute_discount_and_score(apt, market_rates): the listing afterwards
compute_discount_and_score(a, rates) ==
    IF ~IsScoreable(a) THEN Unscoreable(a)
    ELSE LET discount_pct == DiscountTenths(a.price, MarketRateOf(rates, a))
             base == 50 + IntOf(discount_pct) + ScraperBonus(a)
         IN [a EXCEPT !.discount_pct = Some(discount_pct),
                      !.deal_score = Some(Clamp(base)),
                      !.deal_analysis = None]

\* _score_portal_listing(apt, market_rates): score and discount afterwards
\* (its analysis text is not modelled)
score_portal_listing(a, rates) ==
    IF ~IsScoreable(a) THEN Unscoreable(a)
    ELSE LET discount_pct == DiscountTenths(a.price, MarketRateOf(rates, a))
             base == 50 + IntOf(discount_pct) + PortalBonus(a)
         IN [a EXCEPT !.discount_pct = Some(discount_pct),
                      !.deal_score = Some(Clamp(base)),
                      !.deal_analysis = "portal"]

\* a listing URL: a page, and what _cache_key strips (fragment, final slash)
Url(page, tail) == [page |-> page, tail |-> tail]
\* a listing without URL (None or "")
NoUrl == Url(0, "none")

\* a listing as the adapters hand it to the scorers
Listing(i, u, p, b, h, l, k, ba, s) ==
    [id |-> i, url |-> u, price |-> p, bedrooms |-> b, neighborhood |-> h,
     laundry_type |-> l, parking |-> k, bathrooms |-> ba, sqft |-> s,
     discount_pct |-> Nothing, deal_score |-> Nothing, deal_analysis |-> None]

\* rents around the market rates, far below and far above them, and 0 for
\* a missing price
Prices == {0, 100, 2299, 2300, 2301, 2680, 2899, 2900, 2901, 3120, 9000}
Bedrooms == {Nothing} \cup {Some(b) : b \in 0..MaxBedrooms}
Neighborhoods == {"mission", "bayview", ""}
LaundryTypes == {"in_unit", "in_building", None}

ListingInputs ==
    { Listing(1, Url(1, ""), p, b, h, l, k, ba, s) :
        p \in Prices, b \in Bedrooms, h \in Neighborhoods, l \in LaundryTypes,
        k \in BOOLEAN, ba \in {Nothing, Some(1)}, s \in {0, 1100} }

\* no listing is being scored
NoListing == Listing(0, NoUrl, 0, Nothing, "", None, FALSE, Nothing, 0)

ScoreIdle == apt = NoListing /\ scorer = None

\* ------------------------------------------------------------------------
\* Deal analysis: analyze_apartment_deals and its URL-keyed cache
\* ------------------------------------------------------------------------
\* _cache_key(url): None for a missing URL, else the URL without fragment
\* and trailing slash
cache_key(url) == IF url = NoUrl THEN Nothing ELSE Some(url.page)

\* the entry of the URL is in the cache and not older than the TTL
\* (_get_cached_analysis: expired when now - cached_at > TTL)
CacheHit(c, url, t) ==
    /\ cache_key(url) # Nothing
    /\ Val(cache_key(url)) \in DOMAIN c
    /\ ~(t - c[Val(cache_key(url))].cached_at > APARTMENT_ANALYSIS_CACHE_TTL)

\* the entry of the URL is in the cache and expired: the lookup pops it
CacheExpired(c, url, t) ==
    /\ cache_key(url) # Nothing
    /\ Val(cache_key(url)) \in DOMAIN c
    /\ t - c[Val(cache_key(url))].cached_at > APARTMENT_ANALYSIS_CACHE_TTL

\* _set_cached_analysis(url, deal_score, deal_analysis, discount_pct)
set_cached_analysis(c, a, t) ==
    IF cache_key(a.url) = Nothing THEN c
    ELSE (Val(cache_key(a.url)) :>
             [deal_score |-> a.deal_score, deal_analysis |-> a.deal_analysis,
              discount_pct |-> a.discount_pct, cached_at |-> t]) @@ c

\* the loop "for apt in analyzed: _set_cached_analysis(...)"
RECURSIVE SetAll(_, _, _)
SetAll(c0, s0, t) ==
    CHOOSE r \in { IF s = << >> THEN c
                   ELSE SetAll(set_cached_analysis(c, Head(s), t), Tail(s), t) :
                   c \in { c0 }, s \in { s0 } } : TRUE

\* F(v) with v evaluated once, and a sequence with its elements evaluated
Bind(v, F(_)) == CHOOSE r \in { F(x) : x \in { v } } : TRUE
Tuple(s) == s \o << >>

\* a stable sort of pairs << key, item >>, largest key first
RECURSIVE InsertDesc(_, _)
InsertDesc(x, s0) ==
    CHOOSE r \in { IF s = << >> THEN << x >>
                   ELSE IF Head(s)[1] >= x[1]
                        THEN << Head(s) >> \o InsertDesc(x, Tail(s))
                        ELSE << x >> \o s :
                   s \in { s0 } } : TRUE

RECURSIVE SortPairsDesc(_)
SortPairsDesc(s0) ==
    CHOOSE r \in { IF s = << >> THEN << >>
                   ELSE InsertDesc(s[Len(s)], SortPairsDesc(SubSeq(s, 1, Len(s) - 1))) :
                   s \in { s0 } } : TRUE

\* list.sort(key=K, reverse=True)
SortDescBy(s, K(_)) ==
    Bind(SortPairsDesc(Tuple([i \in 1..Len(s) |-> << K(s[i]), s[i] >>])),
         LAMBDA sorted : Tuple([i \in 1..Len(sorted) |-> sorted[i][2]]))

\* x.get("deal_score", 0)
ScoreKey(a) == IF a.deal_score = Nothing THEN 0 ELSE Val(a.deal_score)
\* x.get("discount_pct") or -999, in tenths: a discount of 0.0 counts as -999
DiscountKey(a) ==
    IF a.discount_pct = Nothing \/ a.discount_pct = Some(0) THEN -9990
    ELSE Val(a.discount_pct)

\* what messages.create answers for one listing: it raises, or a text in
\* which "SCORE: <digits>" and "ANALYSIS: <text>" are found or not; the
\* text of the analysis is given by its non-empty sentences
Response(raises, score, sentences) ==
    [raises |-> raises, score |-> score, sentences |-> sentences]
OkResponse == Response(FALSE, Some(72), Some(<< "Good value", "Near transit" >>))
Responses ==
    { OkResponse,
      Response(TRUE, Nothing, Nothing),
      Response(FALSE, Nothing, Some(<< "No number given" >>)),
      Response(FALSE, Some(65), Nothing),
      Response(FALSE, Some(70), Some(<< >>)),
      Response(FALSE, Some(150), Some(<< "Outstanding" >>)) }

\* the answer to the i-th request of a pool: the plan for the first, the
\* ordinary answer for the others
ResponseAt(plan, i) == IF i = 1 THEN plan ELSE OkResponse

\* ". ".join(sentences[:3]).strip() + ("." if sentences else ""): empty for
\* no sentence, else a text (named by its first sentence)
AnalysisText(sentences) == IF Take(sentences, 3) = << >> THEN "" ELSE sentences[1]

\* _call_claude_for_apartment(apt, market_rate) with the client configured
\* or not, and the answer of the API: the listing afterwards
call_claude_for_apartment(a, configured, resp) ==
    IF ~configured
    THEN [a EXCEPT !.deal_analysis =
              IF a.discount_pct # Nothing /\ Val(a.discount_pct) > 0 THEN "below market (local)"
              ELSE IF a.discount_pct # Nothing /\ Val(a.discount_pct) < 0 THEN "above market (local)"
              ELSE "at market (local)"]
    ELSE IF resp.raises
    THEN [a EXCEPT !.deal_analysis = "AI analysis unavailable"]
    ELSE [a EXCEPT !.deal_score = IF resp.score # Nothing THEN resp.score ELSE @,
                   !.deal_analysis = IF resp.sentences # Nothing
                                     THEN AnalysisText(Val(resp.sentences))
                                     ELSE "Reasonable option in this price range."]

Placeholder == "Not in top 20"

\* valid[:AI_ANALYSIS_TOP_N]
TopForAi_all(valid) == valid
TopForAi(valid) == Take(valid, AI_ANALYSIS_TOP_N)

\* _market_rate_for(apt) raises on a neighbourhood that is None
MarketRateForRaises(top) == \E i \in 1..Len(top) : top[i].neighborhood = None

\* the first pass: _compute_discount_and_score on every listing
ScoreAll(apartments) ==
    Tuple([i \in 1..Len(apartments) |->
              compute_discount_and_score(apartments[i], get_neighborhood_market_rates)])

\* entries[:max_return] when max_return is given
Trim(s, max_return) == IF max_return # Nothing THEN Take(s, Val(max_return)) ELSE s

\* valid: the scoreable listings by deal_score, trimmed, then by discount
SelectValid(scored, max_return) ==
    Bind(SortDescBy(SelectSeq(scored, IsScoreable), ScoreKey),
         LAMBDA valid0 : SortDescBy(Trim(valid0, max_return), DiscountKey))

\* the pool of _call_claude_task over top_for_ai, then the placeholder for
\* the rest
Enrich(valid, configured, plan) ==
    Bind(Len(TopForAi(valid)),
         LAMBDA n : Tuple([i \in 1..Len(valid) |->
                       IF i <= n
                       THEN call_claude_for_apartment(valid[i], configured,
                                                      ResponseAt(plan, i))
                       ELSE [valid[i] EXCEPT !.deal_analysis = Placeholder]]))

\* the listings of a list after the in-place updates made through another
UpdatedFrom(all, done) ==
    Tuple([i \in 1..Len(all) |->
              IF \E j \in 1..Len(done) : done[j].id = all[i].id
              THEN done[CHOOSE j \in 1..Len(done) : done[j].id = all[i].id]
              ELSE all[i]])

\* analyze_apartment_deals(apartments, max_return): what it returns (ret),
\* whether an exception left it (raised), the listings for which
\* messages.create was called, in order (asked), and all listings after
\* the in-place updates (apts)
analyze_apartment_deals(apartments, max_return, configured, plan) ==
    IF apartments = << >>
    THEN [raised |-> FALSE, ret |-> << >>, asked |-> << >>, apts |-> << >>]
    ELSE
    Bind(ScoreAll(apartments), LAMBDA scored :
    Bind(SelectValid(scored, max_return), LAMBDA valid :
        IF MarketRateForRaises(TopForAi(valid))
        THEN [raised |-> TRUE, ret |-> << >>, asked |-> << >>, apts |-> scored]
        ELSE
        Bind(Enrich(valid, configured, plan), LAMBDA done :
            [raised |-> FALSE,
             ret |-> SortDescBy(done, ScoreKey),
             asked |-> IF configured
                       THEN Tuple([i \in 1..Len(TopForAi(valid)) |-> valid[i].id])
                       ELSE << >>,
             apts |-> UpdatedFrom(scored, done)])))

\* sorted(apartments, key=(deal_score is None, -(deal_score or 0)))[:max_return]
ReturnKey(a) == IF a.deal_score = Nothing THEN -1 ELSE Val(a.deal_score)

SortedForReturn(apartments, max_return) ==
    Trim(SortDescBy(apartments, ReturnKey), max_return)

\* the listing with the cached deal_score, deal_analysis and discount_pct
FromCache(c, a) ==
    LET e == c[Val(cache_key(a.url))]
    IN [a EXCEPT !.deal_score = e.deal_score, !.deal_analysis = e.deal_analysis,
                 !.discount_pct = e.discount_pct]

\* the lookups of the loop over apartments: hits are copied in from the
\* cache, expired entries are popped
Looked(apartments, c, t) ==
    Tuple([i \in 1..Len(apartments) |->
              IF CacheHit(c, apartments[i].url, t)
              THEN FromCache(c, apartments[i]) ELSE apartments[i]])

Popped(apartments, c, t) ==
    [k \in {k \in DOMAIN c :
                ~\E i \in 1..Len(apartments) :
                    /\ cache_key(apartments[i].url) = Some(k)
                    /\ CacheExpired(c, apartments[i].url, t)} |-> c[k]]

Uncached(apartments, c, t) == SelectSeq(apartments, LAMBDA a : ~CacheHit(c, a.url, t))

\* analyze_apartment_deals_cached(apartments, max_return) at time t with the
\* cache c: the result, the cache afterwards and the number of cache hits
analyze_apartment_deals_cached(apartments, max_return, configured, plan, c, t) ==
    IF apartments = << >>
    THEN [raised |-> FALSE, ret |-> << >>, asked |-> << >>, apts |-> << >>,
          cache |-> c, hits |-> 0]
    ELSE
    Bind(Looked(apartments, c, t), LAMBDA looked :
    Bind(Len(apartments) - Len(Uncached(apartments, c, t)), LAMBDA hits :
        IF Uncached(apartments, c, t) = << >>
        THEN [raised |-> FALSE, ret |-> SortedForReturn(looked, max_return),
              asked |-> << >>, apts |-> looked,
              cache |-> Popped(apartments, c, t), hits |-> hits]
        ELSE
        Bind(analyze_apartment_deals(Uncached(apartments, c, t), Nothing, configured, plan),
             LAMBDA res :
                 Bind(UpdatedFrom(looked, res.apts), LAMBDA merged :
                     IF res.raised
                     THEN [raised |-> TRUE, ret |-> << >>, asked |-> << >>,
                           apts |-> merged,
                           cache |-> Popped(apartments, c, t), hits |-> hits]
                     ELSE [raised |-> FALSE,
                           ret |-> SortedForReturn(merged, max_return),
                           asked |-> res.asked,
                           apts |-> merged,
                           cache |-> SetAll(Popped(apartments, c, t), res.ret, t),
                           hits |-> hits]))))

\* no call of the deal analysis yet
NoDeal == [op |-> None, batch |-> None, plan |-> OkResponse, at |-> 0, raised |-> FALSE,
           ret |-> << >>, asked |-> << >>, apts |-> << >>, hits |-> 0]

DealsIdle == anthropic = FALSE /\ analysis_cache = << >> /\ deal = NoDeal

\* ------------------------------------------------------------------------
\* Scraping: scrape_sf_apartments and the strategies of scrape_via_html
\* ------------------------------------------------------------------------
\* scrape_via_html returns the JSON-LD listings alone when there are this many
LdJsonEnough == 20

\* the listings one strategy builds: the k-th listing of its source
Out(src, n) == [k \in 1..n |-> [from |-> src, k |-> k]]

\* get_sample_apartments()
get_sample_apartments == Out("sample", 3)

\* what the two requests of one scrape meet: the listings of the JSON
\* endpoint within the price range, whether the HTML page can be fetched,
\* the JSON-LD listings within the range, the list-item containers and those
\* of them that parse to a price within the range, the links to listing pages
\* and those of them that carry a price within the range
Pages ==
    { [json |-> j, fetch |-> f, ld |-> d, items |-> i, parsed |-> q, links |-> l, linked |-> m] :
        j \in 0..MaxYield, f \in BOOLEAN,
        d \in {0, 1, LdJsonEnough - 1, LdJsonEnough},
        i \in 0..MaxYield, q \in 0..MaxYield, l \in 0..MaxYield, m \in 0..MaxYield }

PageInputs == { g \in Pages : g.parsed <= g.items /\ g.linked <= g.links }

\* max_listings: the default, and what the callers pass
MaxListings == {10, 50, SCRAPE_POOL_SIZE}

NoPage == [json |-> 0, fetch |-> FALSE, ld |-> 0, items |-> 0, parsed |-> 0, links |-> 0,
           linked |-> 0]

\* no scrape is running
NoScrape == [pc |-> "idle", page |-> NoPage, max_listings |-> 50, apartments |-> << >>,
             tried |-> << >>, result |-> << >>]

ScrapeIdle == scrape = NoScrape

\* scrape_sf_apartments: a non-empty list of a strategy is returned, cut to
\* max_listings; an empty one sends the call to the next stage
Returned(s, apartments, next) ==
    IF apartments # << >>
    THEN [s EXCEPT !.pc = "done", !.apartments = apartments,
                   !.result = Take(apartments, s.max_listings)]
    ELSE [s EXCEPT !.pc = next, !.apartments = apartments]

\* the scoring and scraping pipeline is at rest
PipeIdle == ScoreIdle /\ DealsIdle /\ ScrapeIdle

\* no thread is in _rate_limit
LimiterIdle == [c \in Callers |-> [pc |-> "out", region |-> "sf", since |-> 0, waited |-> 0]]

\* the storage works, nothing else runs
AuxInit ==
    /\ table_ok = TRUE
    /\ limiter = LimiterIdle
    /\ PipeIdle

Init == InitPortal /\ AuxInit

\* a start without key-dependent or file-dependent variety
InitQuiet == InitPortal /\ api_key /\ cache_file = NoFile

\* a request thread outside a call: never called, returned, or left by an
\* exception
Resting == {"idle", "done", "raised"}

ResetAgents(t, f, v) == [a \in Agents |-> IF a[1] = t THEN v ELSE f[a]]

\* the call of thread t returns value v: its locals and its futures are dropped
Return(t, v) ==
    /\ pc' = [pc EXCEPT ![t] = "done"]
    /\ ret' = [ret EXCEPT ![t] = v]
    /\ stale_entries' = [stale_entries EXCEPT ![t] = << >>]
    /\ completed' = [completed EXCEPT ![t] = << >>]
    /\ fpc' = ResetAgents(t, fpc, "idle")
    /\ fres' = ResetAgents(t, fres, << >>)
    /\ fsucc' = ResetAgents(t, fsucc, FALSE)
    /\ fout' = ResetAgents(t, fout, None)

\* ------------------------------------------------------------------------
\* get_portal_listings_sf / get_portal_listings_stanford
\* ------------------------------------------------------------------------
\* a request thread enters one of the two read functions; with _cache_lock:
\* serve a fresh entry, else remember the stale one
ReadCache(t, r) ==
    /\ pc[t] \in Resting
    /\ calls < MaxCalls
    /\ calls' = calls + 1
    /\ region' = [region EXCEPT ![t] = r]
    /\ gate' = [gate EXCEPT ![t] = None]
    /\ LET k == CacheKey(r) IN
       /\ readHit' = [readHit EXCEPT ![t] = CacheStateAt(cache, k, now)]
       /\ bootHit' = [bootHit EXCEPT ![t] =
              IF k \in readSinceBoot THEN None ELSE FileStateAt(bootFile, k, now)]
       /\ readSinceBoot' = readSinceBoot \cup {k}
       /\ IF k \in DOMAIN cache /\ IsFresh(cache[k], now)
          THEN /\ cache' = [cache EXCEPT ![k] = << apply_portal_scores(@[1]), @[2] >>]
               /\ Return(t, Take(cache'[k][1], MAX_APARTMENTS_RETURN))
          ELSE /\ stale_entries' = [stale_entries EXCEPT ![t] =
                      IF k \in DOMAIN cache THEN cache[k][1] ELSE << >>]
               /\ pc' = [pc EXCEPT ![t] = "check"]
               /\ ret' = [ret EXCEPT ![t] = << >>]
               /\ UNCHANGED << cache, completed, fetchVars >>
    /\ UNCHANGED << now, ticks, crashes, api_key, month_year, ledger0, auxVars,
                    api_call_counter, api_count_cache, last_request,
                    request_lock, cache_file, writers,
                    httpOk, incOk, incNo, incTrue, bootFile >>

\* if _get_cached_api_count() >= MAX_MONTHLY_CALLS: serve stale or empty
CheckLimit(t) ==
    /\ pc[t] = "check"
    /\ ~CountReadRaises(api_count_cache, table_ok, now)
    /\ LET r == get_cached_api_count(api_count_cache, api_call_counter, month_year, now) IN
       /\ api_count_cache' = r[2]
       /\ IF Exhausted(r[1])
          THEN /\ gate' = [gate EXCEPT ![t] = "exhausted"]
               /\ Return(t, Take(apply_portal_scores(stale_entries[t]), MAX_APARTMENTS_RETURN))
          ELSE /\ gate' = [gate EXCEPT ![t] = "capacity"]
               /\ pc' = [pc EXCEPT ![t] = "rate"]
               /\ UNCHANGED << ret, stale_entries, completed, fetchVars >>
    /\ UNCHANGED << now, envVars, api_call_counter, cache, last_request, request_lock,
                    cache_file, writers, region, httpOk, incOk, incNo, incTrue, readHit, bootHit,
                    bootFile, readSinceBoot >>

LastRequest(r) == IF r \in DOMAIN last_request THEN last_request[r] ELSE 0

\* elapsed < MIN_REQUEST_INTERVAL
MustSleep(r) == now - LastRequest(r) < MIN_REQUEST_INTERVAL

\* _request_lock after the with block is left by its holder
Released_kept(holder) == holder
Released(holder) == None

\* the clock when time.sleep(MIN_REQUEST_INTERVAL - elapsed) returns
WakeTime_at_once(r) == now
WakeTime(r) == Max(now, LastRequest(r) + MIN_REQUEST_INTERVAL)

\* what follows _rate_limit(region): _fetch for sf, the second check for stanford
AfterRateLimit(t) ==
    IF region[t] = "sf"
    THEN /\ pc' = [pc EXCEPT ![t] = "fetch"]
         /\ fpc' = [fpc EXCEPT ![<< t, 0 >>] = "check"]
    ELSE /\ pc' = [pc EXCEPT ![t] = "precheck"]
         /\ UNCHANGED fpc

\* _rate_limit: take _request_lock; sleep inside it when the last request of
\* the region is younger than MIN_REQUEST_INTERVAL
RateLimitEnter(t) ==
    /\ pc[t] = "rate"
    /\ request_lock = None
    /\ IF MustSleep(region[t])
       THEN /\ request_lock' = t
            /\ pc' = [pc EXCEPT ![t] = "sleep"]
            /\ UNCHANGED << last_request, fpc >>
       ELSE /\ last_request' = (region[t] :> now) @@ last_request
            /\ AfterRateLimit(t)
            /\ UNCHANGED request_lock
    /\ UNCHANGED << now, envVars, api_call_counter, api_count_cache, cache, cache_file,
                    writers, region, stale_entries, completed, ret,
                    fres, fsucc, fout, histVars >>

\* time.sleep(sleep_time) returns once the interval has passed: stamp the
\* region with the time after the sleep and release the lock
RateLimitWake(t) ==
    /\ pc[t] = "sleep"
    /\ now' = WakeTime(region[t])
    /\ last_request' = (region[t] :> now') @@ last_request
    /\ request_lock' = Released(request_lock)
    /\ AfterRateLimit(t)
    /\ UNCHANGED << envVars, api_call_counter, api_count_cache, cache, cache_file,
                    writers, region, stale_entries, completed, ret,
                    fres, fsucc, fout, histVars >>

\* ------------------------------------------------------------------------
\* _fetch, run by a request thread (agent <<t, 0>>) or a pool worker <<t, c>>
\* ------------------------------------------------------------------------
\* a future of the pool completes: as_completed yields it in this order
Completed(a) ==
    IF a[2] = 0 THEN completed
    ELSE [completed EXCEPT ![a[1]] = Append(@, a[2])]

\* _fetch returns [] without a usable response: v tells why
FetchSkip(a, v) ==
    /\ fpc' = [fpc EXCEPT ![a] = "done"]
    /\ fout' = [fout EXCEPT ![a] = v]
    /\ fres' = [fres EXCEPT ![a] = << >>]
    /\ completed' = Completed(a)

\* the count _fetch reads before the request
FetchSeen == get_cached_api_count(api_count_cache, api_call_counter, month_year, now)

\* no request is sent: API_KEY is not set, or the cached count is at the cap
FetchBlocked(a) ==
    /\ fpc[a] = "check"
    /\ api_key => ~CountReadRaises(api_count_cache, table_ok, now)
    /\ IF ~api_key
       THEN /\ FetchSkip(a, "nokey")
            /\ UNCHANGED api_count_cache
       ELSE /\ Exhausted(FetchSeen[1])
            /\ api_count_cache' = FetchSeen[2]
            /\ FetchSkip(a, "exhausted")
    /\ UNCHANGED << now, envVars, api_call_counter, cache, last_request, request_lock,
                    cache_file, writers, pc, region, stale_entries,
                    ret, fsucc, histVars >>

\* the check passes and the request is sent
FetchSends(a) ==
    /\ fpc[a] = "check"
    /\ api_key
    /\ ~CountReadRaises(api_count_cache, table_ok, now)
    /\ ~Exhausted(FetchSeen[1])
    /\ api_count_cache' = FetchSeen[2]

\* requests.get raises, times out, answers an error status or an unparsable
\* body: except Exception -> return []
FetchHttpFail_inc(a) ==
    /\ FetchSends(a)
    /\ api_call_counter' = increment_api_call_count(api_call_counter, month_year)[1]
    /\ FetchSkip(a, "failed")
    /\ UNCHANGED << now, envVars, cache, last_request,
                    request_lock, cache_file, writers, pc, region,
                    stale_entries, ret, fsucc, histVars >>

FetchHttpFail(a) ==
    /\ FetchSends(a)
    /\ FetchSkip(a, "failed")
    /\ UNCHANGED << now, envVars, api_call_counter, cache, last_request,
                    request_lock, cache_file, writers, pc, region,
                    stale_entries, ret, fsucc, histVars >>

\* the API answers 200 with body p; result = the publicly listed items
FetchHttpOk(a, p) ==
    /\ FetchSends(a)
    /\ httpOk' = httpOk + 1
    /\ fpc' = [fpc EXCEPT ![a] = "inc"]
    /\ fout' = [fout EXCEPT ![a] = "ok"]
    /\ fres' = [fres EXCEPT ![a] = FilterListed(p)]
    /\ UNCHANGED << now, envVars, api_call_counter, cache, last_request,
                    request_lock, cache_file, writers, threadVars, fsucc,
                    incOk, incNo, incTrue, readHit, bootHit, gate,
                    bootFile, readSinceBoot >>

\* increment_api_call_count up to conn.commit(), under the database lock
Commit(a) ==
    LET r == increment_api_call_count(api_call_counter, month_year) IN
    /\ table_ok
    /\ api_call_counter' = r[1]
    /\ fsucc' = [fsucc EXCEPT ![a] = r[2]]
    /\ incOk' = IF r[2] THEN incOk + 1 ELSE incOk
    /\ incNo' = IF r[2] THEN incNo ELSE incNo + 1

\* _fetch after a good response: increment_api_call_count(); on True read
\* the count again and assign _api_count_cache; return result
FetchIncrement(a) ==
    /\ fpc[a] = "inc"
    /\ fout[a] = "ok"
    /\ Commit(a)
    /\ api_count_cache' =
          IF fsucc'[a]
          THEN FetchRefreshCountCache(api_count_cache,
                   get_monthly_api_call_count(api_call_counter', month_year), now)
          ELSE api_count_cache
    /\ incTrue' = IF fsucc'[a] THEN incTrue + 1 ELSE incTrue
    /\ fpc' = [fpc EXCEPT ![a] = "done"]
    /\ completed' = Completed(a)
    /\ UNCHANGED << now, envVars, cache, last_request, request_lock,
                    cache_file, writers, pc, region, stale_entries,
                    ret, fres, fout,
                    httpOk, readHit, bootHit, gate, bootFile, readSinceBoot >>

\* "Check limit once before parallel fetch", then submit both cities
StanfordPreCheck(t) ==
    /\ pc[t] = "precheck"
    /\ ~CountReadRaises(api_count_cache, table_ok, now)
    /\ LET r == get_cached_api_count(api_count_cache, api_call_counter, month_year, now) IN
       /\ api_count_cache' = r[2]
       /\ IF Exhausted(r[1])
          THEN /\ pc' = [pc EXCEPT ![t] = "store"]
               /\ UNCHANGED fpc
          ELSE /\ pc' = [pc EXCEPT ![t] = "pool"]
               /\ fpc' = [a \in Agents |->
                            IF a[1] = t /\ a[2] \in Cities THEN "wcheck" ELSE fpc[a]]
    /\ UNCHANGED << now, envVars, api_call_counter, cache, last_request, request_lock,
                    cache_file, writers, region, stale_entries, completed,
                    ret, fres, fsucc, fout, histVars >>

\* fetch_city: the worker's own check before _fetch
WorkerCheck(a) ==
    /\ fpc[a] = "wcheck"
    /\ ~CountReadRaises(api_count_cache, table_ok, now)
    /\ LET r == get_cached_api_count(api_count_cache, api_call_counter, month_year, now) IN
       /\ api_count_cache' = r[2]
       /\ IF Exhausted(r[1])
          THEN FetchSkip(a, "skipped")
          ELSE /\ fpc' = [fpc EXCEPT ![a] = "check"]
               /\ UNCHANGED << fout, fres, completed >>
    /\ UNCHANGED << now, envVars, api_call_counter, cache, last_request, request_lock,
                    cache_file, writers, pc, region, stale_entries,
                    ret, fsucc, histVars >>

\* the results of the futures concatenated in completion order
RECURSIVE RawInOrder(_, _)
RawInOrder(t, order) ==
    IF order = << >> THEN << >>
    ELSE fres[<< t, Head(order) >>] \o RawInOrder(t, Tail(order))

\* entries of the sf refresh: [_normalize(it) for listed it in raw]
SfEntries(t) == NormalizeListed(fres[<< t, 0 >>])

\* all_entries of the stanford refresh: merged without duplicates in
\* completion order, then sorted by price
StanfordEntries(t) == SortByPrice(MergeSeen(RawInOrder(t, completed[t]), {}, << >>))

\* _fetch has returned (sf), the pool is drained (stanford) or was skipped
ReadyToStore(t) ==
    \/ pc[t] = "fetch" /\ fpc[<< t, 0 >>] = "done"
    \/ pc[t] = "pool" /\ \A c \in Cities : fpc[<< t, c >>] = "done"
    \/ pc[t] = "store"

\* the scored listings the refresh of thread t has produced
Refreshed(t) ==
    apply_portal_scores(IF pc[t] = "fetch" THEN SfEntries(t)
                        ELSE IF pc[t] = "pool" THEN StanfordEntries(t)
                        ELSE << >>)

\* the background writer started by _save_persistent_cache, holding the data
\* it builds under _cache_lock. No store can come between the start of the
\* thread and its snapshot except one that starts a writer of its own, so
\* the snapshot is taken with the store that starts the thread.
NewWriter_inline(c) == EmptyBag
NewWriter(c) == SetToBag({[phase |-> "snap", data |-> SaveSnapshot(c)]})

\* score, then with _cache_lock: overwrite the entry (and start the file
\* writer) or fall back to the entry already cached; return entries[:max_return]
Store(t) ==
    /\ ReadyToStore(t)
    /\ LET k == CacheKey(region[t])
           es == Refreshed(t)
       IN IF StoreOverwrites(cache, k, es)
          THEN /\ cache' = (k :> << es, now >>) @@ cache
               /\ writers' = writers (+) NewWriter(cache')
               /\ Return(t, Take(es, MAX_APARTMENTS_RETURN))
          ELSE /\ Return(t, Take(apply_portal_scores(cache[k][1]), MAX_APARTMENTS_RETURN))
               /\ UNCHANGED << cache, writers >>
    /\ UNCHANGED << now, envVars, api_call_counter, api_count_cache, last_request,
                    request_lock, cache_file, region, histVars >>

\* ------------------------------------------------------------------------
\* _save_persistent_cache: the background _write thread
\* ------------------------------------------------------------------------
OneWriter(w) == SetToBag({w})

\* with open(path, "w") as f: json.dump(data, f)
WriterDump(w) ==
    /\ BagIn(w, writers) /\ w.phase = "snap"
    /\ cache_file' = JsonFile(w.data)
    /\ writers' = writers (-) OneWriter(w)
    /\ UNCHANGED << now, envVars, api_call_counter, api_count_cache, cache, last_request,
                    request_lock, threadVars, fetchVars, histVars >>

\* ------------------------------------------------------------------------
\* Environment: time, and a crash followed by a restart of the process
\* ------------------------------------------------------------------------
TickSizes == {MIN_REQUEST_INTERVAL}

\* time passes between requests; within a request the clock moves only
\* where the request sleeps (RateLimitWake): a request in flight is short
\* against the windows of the count cache and of the rate limiter
Tick(d) ==
    /\ ticks < MaxTicks
    /\ \A t \in Threads : pc[t] \in Resting
    /\ \A c \in Callers : limiter[c].pc = "out"
    /\ ticks' = ticks + 1
    /\ now' = now + d
    /\ UNCHANGED << calls, crashes, api_key, month_year, ledger0, auxVars, api_call_counter,
                    api_count_cache, cache, last_request, request_lock, cache_file,
                    writers, threadVars, fetchVars, histVars >>

\* the process dies at any point and is started again: the module-level
\* state is rebuilt, reset_monthly_api_counter_if_needed() and
\* _load_persistent_cache() run at import; the table and the file survive
Restart ==
    /\ crashes < MaxCrashes
    /\ crashes' = crashes + 1
    /\ api_call_counter' = IF table_ok
                           THEN reset_monthly_api_counter_if_needed(api_call_counter, month_year)
                           ELSE api_call_counter
    /\ api_count_cache' = << 0, 0 >>
    /\ cache' = load_persistent_cache(cache_file)
    /\ last_request' = << >>
    /\ request_lock' = None
    /\ writers' = EmptyBag
    /\ pc' = [t \in Threads |-> "idle"]
    /\ region' = [t \in Threads |-> "sf"]
    /\ stale_entries' = [t \in Threads |-> << >>]
    /\ completed' = [t \in Threads |-> << >>]
    /\ ret' = [t \in Threads |-> << >>]
    /\ fpc' = [a \in Agents |-> "idle"]
    /\ fres' = [a \in Agents |-> << >>]
    /\ fsucc' = [a \in Agents |-> FALSE]
    /\ fout' = [a \in Agents |-> None]
    /\ readHit' = [t \in Threads |-> None]
    /\ bootHit' = [t \in Threads |-> None]
    /\ gate' = [t \in Threads |-> None]
    /\ bootFile' = cache_file
    /\ readSinceBoot' = {}
    /\ UNCHANGED << now, ticks, calls, api_key, month_year, ledger0, auxVars, cache_file,
                    httpOk, incOk, incNo, incTrue >>

\* a step of a request thread or of one of its pool workers
ThreadStep ==
    \/ \E t \in Threads, r \in Regions : ReadCache(t, r)
    \/ \E t \in Threads : CheckLimit(t)
    \/ \E t \in Threads : RateLimitEnter(t)
    \/ \E t \in Threads : RateLimitWake(t)
    \/ \E a \in Agents : FetchBlocked(a)
    \/ \E a \in Agents : FetchHttpFail(a)
    \/ \E a \in Agents, p \in ApiPayloads : FetchHttpOk(a, p)
    \/ \E a \in Agents : FetchIncrement(a)
    \/ \E t \in Threads : StanfordPreCheck(t)
    \/ \E a \in Agents : WorkerCheck(a)
    \/ \E t \in Threads : Store(t)

\* a step of a background writer
WriterStep == \E w \in BagToSet(writers) : WriterDump(w)

Next ==
    \/ ThreadStep
    \/ WriterStep
    \/ \E d \in TickSizes : Tick(d)
    \/ Restart

Spec == Init /\ [][Next]_vars

\* ------------------------------------------------------------------------
\* Failing storage: the counter table is missing or sqlite raises
\* ------------------------------------------------------------------------
\* from now on every statement on the table raises
StorageFails ==
    /\ table_ok
    /\ table_ok' = FALSE
    /\ UNCHANGED << now, ticks, calls, crashes, api_key, month_year, ledger0, limiter, pipeVars,
                    api_call_counter, api_count_cache, cache, last_request, request_lock,
                    cache_file, writers, threadVars, fetchVars, histVars >>

\* an exception leaves get_portal_listings_sf / _stanford: nothing catches it
Raise(t) ==
    /\ pc' = [pc EXCEPT ![t] = "raised"]
    /\ ret' = [ret EXCEPT ![t] = << >>]
    /\ stale_entries' = [stale_entries EXCEPT ![t] = << >>]
    /\ completed' = [completed EXCEPT ![t] = << >>]
    /\ fpc' = ResetAgents(t, fpc, "idle")
    /\ fres' = ResetAgents(t, fres, << >>)
    /\ fsucc' = ResetAgents(t, fsucc, FALSE)
    /\ fout' = ResetAgents(t, fout, None)

\* _get_cached_api_count() raises in the limit check of the read (601, 642)
\* or in the check before the pool (658)
LimitCheckRaises(t) ==
    /\ pc[t] \in {"check", "precheck"}
    /\ CountReadRaises(api_count_cache, table_ok, now)
    /\ Raise(t)
    /\ UNCHANGED << now, envVars, api_call_counter, api_count_cache, cache, last_request,
                    request_lock, cache_file, writers, region, histVars >>

\* _get_cached_api_count() raises in _fetch (533), outside its try: the
\* exception leaves _fetch and the sf read (610). A pool worker never has to
\* query the table: the check before the pool (658) has just refreshed the
\* cached count
FetchCheckRaises(t) ==
    /\ pc[t] = "fetch"
    /\ fpc[<< t, 0 >>] = "check"
    /\ api_key
    /\ CountReadRaises(api_count_cache, table_ok, now)
    /\ Raise(t)
    /\ UNCHANGED << now, envVars, api_call_counter, api_count_cache, cache, last_request,
                    request_lock, cache_file, writers, region, histVars >>

\* increment_api_call_count() raises after a good response, inside the try
\* of _fetch: except Exception -> return []
FetchIncrementRaises(a) ==
    /\ fpc[a] = "inc"
    /\ fout[a] = "ok"
    /\ ~table_ok
    /\ FetchSkip(a, "error")
    /\ UNCHANGED << now, envVars, api_call_counter, api_count_cache, cache, last_request,
                    request_lock, cache_file, writers, pc, region, stale_entries,
                    ret, fsucc, histVars >>

InitFaulty == InitPortal /\ table_ok \in BOOLEAN /\ limiter = LimiterIdle /\ PipeIdle

NextFaulty ==
    \/ Next
    \/ StorageFails
    \/ \E t \in Threads : LimitCheckRaises(t)
    \/ \E t \in Threads : FetchCheckRaises(t)
    \/ \E a \in Agents : FetchIncrementRaises(a)

SpecFaulty == InitFaulty /\ [][NextFaulty]_vars

\* ------------------------------------------------------------------------
\* The rate limiter on its own: threads that call _rate_limit(region)
\* ------------------------------------------------------------------------
\* what the limiter actions leave alone
LimiterFrame ==
    UNCHANGED << ticks, crashes, api_key, month_year, ledger0, table_ok, pipeVars,
                 api_call_counter, api_count_cache, cache, cache_file, writers,
                 threadVars, fetchVars, histVars >>

\* a thread calls _rate_limit(r) and goes for _request_lock
LimiterCall(c, r) ==
    /\ limiter[c].pc = "out"
    /\ calls < MaxRateCalls
    /\ calls' = calls + 1
    /\ limiter' = [limiter EXCEPT ![c] =
                      [pc |-> "lock", region |-> r, since |-> now, waited |-> 0]]
    /\ UNCHANGED << now, last_request, request_lock >>
    /\ LimiterFrame

\* with _request_lock: stamp and return, or sleep inside the lock
LimiterEnter(c) ==
    /\ limiter[c].pc = "lock"
    /\ request_lock = None
    /\ IF MustSleep(limiter[c].region)
       THEN /\ request_lock' = c
            /\ limiter' = [limiter EXCEPT ![c].pc = "sleep"]
            /\ UNCHANGED last_request
       ELSE /\ last_request' = (limiter[c].region :> now) @@ last_request
            /\ limiter' = [limiter EXCEPT ![c].pc = "out",
                                          ![c].waited = now - limiter[c].since]
            /\ UNCHANGED request_lock
    /\ UNCHANGED << now, calls >>
    /\ LimiterFrame

\* the sleep ends: stamp, release the lock, return
LimiterWake(c) ==
    /\ limiter[c].pc = "sleep"
    /\ now' = WakeTime(limiter[c].region)
    /\ last_request' = (limiter[c].region :> now') @@ last_request
    /\ request_lock' = Released(request_lock)
    /\ limiter' = [limiter EXCEPT ![c].pc = "out",
                                  ![c].waited = now' - limiter[c].since]
    /\ UNCHANGED calls
    /\ LimiterFrame

InitRate == InitQuiet /\ AuxInit /\ api_call_counter = << >>

NextRate ==
    \/ \E c \in Callers, r \in Regions : LimiterCall(c, r)
    \/ \E c \in Callers : LimiterEnter(c)
    \/ \E c \in Callers : LimiterWake(c)
    \/ \E d \in TickSizes : Tick(d)

SpecRate == InitRate /\ [][NextRate]_vars

\* ------------------------------------------------------------------------
\* A running process under fair scheduling: the request thread, its pool
\* workers and writers, and other threads competing for _request_lock.
\* Every requests.get returns or times out (REQUEST_TIMEOUT), every sleep
\* ends, every thread that can take a step eventually takes one.
\* ------------------------------------------------------------------------
\* a step of a thread inside _rate_limit
LimiterStep ==
    \/ \E c \in Callers : LimiterEnter(c)
    \/ \E c \in Callers : LimiterWake(c)

\* a step of a thread that is inside a call
Progress ==
    \/ \E t \in Threads : CheckLimit(t)
    \/ \E t \in Threads : RateLimitEnter(t)
    \/ \E t \in Threads : RateLimitWake(t)
    \/ \E a \in Agents : FetchBlocked(a)
    \/ \E a \in Agents : FetchHttpFail(a)
    \/ \E a \in Agents, p \in ApiPayloads : FetchHttpOk(a, p)
    \/ \E a \in Agents : FetchIncrement(a)
    \/ \E t \in Threads : StanfordPreCheck(t)
    \/ \E a \in Agents : WorkerCheck(a)
    \/ \E t \in Threads : Store(t)

\* the threads that compete with the portal reads for _request_lock
Competitors == {"c1"}

\* the month starts with an empty ledger, or one call below the cap
InitLive == InitQuiet /\ AuxInit /\ Count \in {0, MAX_MONTHLY_CALLS - 1}

NextLive ==
    \/ ThreadStep
    \/ WriterStep
    \/ \E c \in Competitors, r \in Regions : LimiterCall(c, r)
    \/ LimiterStep

SpecLive ==
    /\ InitLive
    /\ [][NextLive]_vars
    /\ WF_vars(Progress)
    /\ WF_vars(LimiterStep)
    /\ WF_vars(WriterStep)

\* ------------------------------------------------------------------------
\* Scoring one listing
\* ------------------------------------------------------------------------
ScoreFrame ==
    UNCHANGED << now, ticks, calls, crashes, api_key, month_year, ledger0, table_ok,
                 limiter, dealVars, scrapeVars, api_call_counter, api_count_cache, cache, last_request,
                 request_lock, cache_file, writers, threadVars, fetchVars, histVars >>

\* the scraper pipeline scores the listing
ScoreScraped ==
    /\ scorer = None
    /\ apt' = compute_discount_and_score(apt, get_neighborhood_market_rates)
    /\ scorer' = "scraper"
    /\ ScoreFrame

\* _apply_portal_scores scores the listing
ScorePortal ==
    /\ scorer = None
    /\ apt' = score_portal_listing(apt, get_neighborhood_market_rates)
    /\ scorer' = "portal"
    /\ ScoreFrame

InitScore ==
    /\ InitQuiet /\ table_ok = TRUE /\ limiter = LimiterIdle
    /\ api_call_counter = << >>
    /\ DealsIdle /\ ScrapeIdle
    /\ apt \in ListingInputs
    /\ IsScoreable(apt) =>
          ~IsTie(apt.price, MarketRateOf(get_neighborhood_market_rates, apt))
    /\ scorer = None

NextScore == ScoreScraped \/ ScorePortal

SpecScore == InitScore /\ [][NextScore]_vars

\* ------------------------------------------------------------------------
\* Calls of analyze_apartment_deals and analyze_apartment_deals_cached
\* ------------------------------------------------------------------------
\* the batches handed to the analysis: a few listings with distinct URLs,
\* one of them without price; more listings than AI_ANALYSIS_TOP_N; the
\* sample listings, which share one URL; a listing whose neighbourhood is
\* None; a listing without URL
Batch(b) ==
    IF b = "small" THEN
        << Listing(1, Url(1, ""), 2299, Some(1), "mission", None, FALSE, Some(1), 700),
           Listing(2, Url(2, "/"), 3120, Some(1), "", "in_unit", TRUE, Nothing, 0),
           Listing(3, Url(3, ""), 0, Some(1), "mission", None, FALSE, Nothing, 0),
           Listing(4, Url(4, "#photos"), 2900, Some(0), "mission", "in_building", FALSE, Some(1), 0) >>
    ELSE IF b = "big" THEN
        [i \in 1..(AI_ANALYSIS_TOP_N + MaxExtra) |->
            Listing(i, Url(100 + i, ""), 2000 + 30 * i, Some(1), "mission", None, FALSE,
                    Some(1), 0)]
    ELSE IF b = "sample" THEN
        << Listing(1, Url(900, "/"), 3400, Some(2), "mission", None, FALSE, Some(1), 950),
           Listing(2, Url(900, "/"), 2100, Some(0), "inner sunset", None, FALSE, Some(1), 450),
           Listing(3, Url(900, "/"), 2950, Some(1), "soma", None, FALSE, Some(1), 700) >>
    ELSE IF b = "flat" THEN
        [i \in 1..(AI_ANALYSIS_TOP_N + MaxExtra) |->
            Listing(i, Url(200 + i, ""), 2900 + 30 * (i - 1), Some(1), "mission", None, FALSE,
                    Some(1), 0)]
    ELSE IF b = "nullhood" THEN
        << Listing(1, Url(5, ""), 2680, Some(1), None, None, FALSE, Some(1), 0),
           Listing(2, Url(6, ""), 2901, Some(2), "mission", None, TRUE, Some(2), 0) >>
    ELSE
        << Listing(1, NoUrl, 2680, Some(1), "mission", None, FALSE, Some(1), 0),
           Listing(2, Url(7, ""), 2301, Some(0), "mission", None, FALSE, Some(1), 0) >>

\* a batch and the answer of the API to the first request of the call
DealInputs ==
    ({"small"} \X Responses)
    \cup ({"big"} \X {OkResponse, Response(TRUE, Nothing, Nothing)})
    \cup ({"sample", "flat", "nullhood", "loose"} \X {OkResponse})

DealFrame ==
    UNCHANGED << crashes, api_key, month_year, ledger0, table_ok, limiter, scoreVars,
                 scrapeVars, anthropic, api_call_counter, api_count_cache, cache, last_request,
                 request_lock, cache_file, writers, threadVars, fetchVars, histVars >>

\* analyze_apartment_deals(batch)
AnalyzeDeals(b, plan) ==
    /\ calls < MaxDealCalls
    /\ calls' = calls + 1
    /\ \E r \in { analyze_apartment_deals(Batch(b), Nothing, anthropic, plan) } :
          deal' = [op |-> "analyze", batch |-> b, plan |-> plan, at |-> now, raised |-> r.raised,
                   ret |-> r.ret, asked |-> r.asked, apts |-> r.apts, hits |-> 0]
    /\ UNCHANGED << now, ticks, analysis_cache >>
    /\ DealFrame

\* analyze_apartment_deals_cached(batch, max_return=MAX_APARTMENTS_RETURN)
AnalyzeCached(b, plan) ==
    /\ calls < MaxDealCalls
    /\ calls' = calls + 1
    /\ \E r \in { analyze_apartment_deals_cached(Batch(b), Some(MAX_APARTMENTS_RETURN),
                                                  anthropic, plan, analysis_cache, now) } :
          /\ deal' = [op |-> "cached", batch |-> b, plan |-> plan, at |-> now, raised |-> r.raised,
                      ret |-> r.ret, asked |-> r.asked, apts |-> r.apts, hits |-> r.hits]
          /\ analysis_cache' = r.cache
    /\ UNCHANGED << now, ticks >>
    /\ DealFrame

\* time passes between two calls: a second, or the TTL of the cache
DealTickSizes == {1, APARTMENT_ANALYSIS_CACHE_TTL}

DealsTick(d) ==
    /\ ticks < MaxDealTicks
    /\ calls > 0 /\ calls < MaxDealCalls
    /\ ticks' = ticks + 1
    /\ now' = now + d
    /\ UNCHANGED << calls, analysis_cache, deal >>
    /\ DealFrame

InitDeals ==
    /\ InitQuiet /\ table_ok = TRUE /\ limiter = LimiterIdle
    /\ api_call_counter = << >>
    /\ ScoreIdle /\ ScrapeIdle
    /\ anthropic \in BOOLEAN
    /\ analysis_cache = << >>
    /\ deal = NoDeal

NextDeals ==
    \/ \E in \in DealInputs : AnalyzeDeals(in[1], in[2])
    \/ \E in \in DealInputs : AnalyzeCached(in[1], in[2])
    \/ \E d \in DealTickSizes : DealsTick(d)

SpecDeals == InitDeals /\ [][NextDeals]_vars

\* ------------------------------------------------------------------------
\* One scrape, strategy by strategy
\* ------------------------------------------------------------------------
ScrapeFrame ==
    UNCHANGED << now, ticks, calls, crashes, api_key, month_year, ledger0, table_ok,
                 limiter, scoreVars, dealVars, api_call_counter, api_count_cache, cache,
                 last_request, request_lock, cache_file, writers, threadVars, fetchVars,
                 histVars >>

\* scrape_sf_apartments starts with scrape_via_json_api()
ScrapeJsonApi ==
    /\ scrape.pc = "start"
    /\ scrape' = Returned([scrape EXCEPT !.tried = Append(@, "json")],
                          Out("json", scrape.page.json), "html")
    /\ ScrapeFrame

\* scrape_via_html: the page is fetched and its JSON-LD is read; a failed
\* request makes scrape_via_html return []
ScrapeLdJson ==
    /\ scrape.pc = "html"
    /\ scrape' =
          IF ~scrape.page.fetch
          THEN [scrape EXCEPT !.pc = "sample"]
          ELSE LET apartments == Out("ldjson", scrape.page.ld)
                   s == [scrape EXCEPT !.tried = Append(@, "ldjson")]
               IN  IF Len(apartments) >= LdJsonEnough
                   THEN Returned(s, apartments, "sample")
                   ELSE [s EXCEPT !.pc = "dom", !.apartments = apartments]
    /\ ScrapeFrame

\* scrape_via_html: list-item containers were found and are parsed; their
\* listings are appended to the ones already built
ScrapeListItems ==
    /\ scrape.pc = "dom"
    /\ scrape.page.items > 0
    /\ scrape' = [scrape EXCEPT !.pc = "fallback", !.tried = Append(@, "items"),
                                !.apartments = @ \o Out("items", scrape.page.parsed)]
    /\ ScrapeFrame

\* scrape_via_html: no list-item container; the links to listing pages are
\* parsed, and without any such link the function returns []
ScrapeLinks ==
    /\ scrape.pc = "dom"
    /\ scrape.page.items = 0
    /\ scrape' =
          LET s == [scrape EXCEPT !.tried = Append(@, "links")]
          IN  IF scrape.page.links > 0
              THEN Returned(s, scrape.apartments \o Out("links", scrape.page.linked), "sample")
              ELSE Returned(s, << >>, "sample")
    /\ ScrapeFrame

\* scrape_via_html: after the list items, the links are parsed only when
\* nothing has been built so far; then the function returns what it has
ScrapeLinkFallback ==
    /\ scrape.pc = "fallback"
    /\ scrape' =
          IF scrape.apartments = << >> /\ scrape.page.links > 0
          THEN Returned([scrape EXCEPT !.tried = Append(@, "links")],
                        Take(Out("links", scrape.page.linked), scrape.max_listings), "sample")
          ELSE Returned(scrape, scrape.apartments, "sample")
    /\ ScrapeFrame

\* scrape_sf_apartments: nothing came back, the sample is returned
ScrapeSample ==
    /\ scrape.pc = "sample"
    /\ scrape' = [scrape EXCEPT !.pc = "done", !.tried = Append(@, "sample"),
                                !.apartments = << >>, !.result = get_sample_apartments]
    /\ ScrapeFrame

InitScrape ==
    /\ InitQuiet /\ table_ok = TRUE /\ limiter = LimiterIdle
    /\ api_call_counter = << >>
    /\ ScoreIdle /\ DealsIdle
    /\ \E g \in PageInputs, n \in MaxListings :
          scrape = [NoScrape EXCEPT !.pc = "start", !.page = g, !.max_listings = n]

NextScrape ==
    \/ ScrapeJsonApi
    \/ ScrapeLdJson
    \/ ScrapeListItems
    \/ ScrapeLinks
    \/ ScrapeLinkFallback
    \/ ScrapeSample

SpecScrape == InitScrape /\ [][NextScrape]_vars

\* ------------------------------------------------------------------------
\* The request path and the file writers, the writers under no obligation
\* ------------------------------------------------------------------------
\* a file cut short by a write that failed after open(path, "w")
PartialFile == [state |-> "partial", data |-> << >>]

\* _write raises (mkdir, open or json.dump): the exception is logged and the
\* thread ends; the file is as it was, or cut short
WriterFails(w) ==
    /\ BagIn(w, writers)
    /\ cache_file' \in {cache_file, PartialFile}
    /\ writers' = writers (-) OneWriter(w)
    /\ UNCHANGED << now, envVars, api_call_counter, api_count_cache, cache, last_request,
                    request_lock, threadVars, fetchVars, histVars >>

NextAsync ==
    \/ ThreadStep
    \/ WriterStep
    \/ \E w \in BagToSet(writers) : WriterFails(w)

\* the request threads keep running; no writer has to run at all
SpecAsync == InitLive /\ [][NextAsync]_vars /\ WF_vars(Progress)

\* ------------------------------------------------------------------------
\* The ledger on its own: callers of increment_api_call_count, and restarts
\* ------------------------------------------------------------------------
\* a caller enters increment_api_call_count
LedgerCall(a) ==
    /\ fpc[a] = "idle"
    /\ calls < MaxLedgerCalls
    /\ calls' = calls + 1
    /\ fpc' = [fpc EXCEPT ![a] = "inc"]
    /\ fout' = [fout EXCEPT ![a] = "direct"]
    /\ UNCHANGED << now, ticks, crashes, api_key, month_year, ledger0, auxVars, api_call_counter,
                    api_count_cache, cache, last_request, request_lock, cache_file,
                    writers, threadVars, fres, fsucc, histVars >>

\* INSERT OR IGNORE, UPDATE ... WHERE call_count < 50, commit
LedgerCommit(a) ==
    /\ fpc[a] = "inc"
    /\ fout[a] = "direct"
    /\ Commit(a)
    /\ fpc' = [fpc EXCEPT ![a] = "incret"]
    /\ UNCHANGED << now, envVars, api_count_cache, cache, last_request, request_lock,
                    cache_file, writers, threadVars, fres, fout,
                    httpOk, incTrue, readHit, bootHit, gate, bootFile, readSinceBoot >>

\* return success
LedgerReturn(a) ==
    /\ fpc[a] = "incret"
    /\ incTrue' = IF fsucc[a] THEN incTrue + 1 ELSE incTrue
    /\ fpc' = [fpc EXCEPT ![a] = "idle"]
    /\ fsucc' = [fsucc EXCEPT ![a] = FALSE]
    /\ fout' = [fout EXCEPT ![a] = None]
    /\ UNCHANGED << now, envVars, api_call_counter, api_count_cache, cache, last_request,
                    request_lock, cache_file, writers, threadVars, fres,
                    httpOk, incOk, incNo, readHit, bootHit, gate, bootFile, readSinceBoot >>

InitLedger == InitQuiet /\ AuxInit

NextLedger ==
    \/ \E a \in Agents : LedgerCall(a)
    \/ \E a \in Agents : LedgerCommit(a)
    \/ \E a \in Agents : LedgerReturn(a)
    \/ Restart

SpecLedger == InitLedger /\ [][NextLedger]_vars

\* ------------------------------------------------------------------------
\* The ledger across a change of period
\* ------------------------------------------------------------------------
\* datetime.now().strftime("%Y-%m") once the month of the start is over
LaterMonth == "2026-04"

\* the calendar month ends: from now on the ledger functions compute the
\* new month_year
PeriodTurns ==
    /\ month_year \in Months
    /\ month_year' = LaterMonth
    /\ UNCHANGED << now, ticks, calls, crashes, api_key, ledger0, auxVars, api_call_counter,
                    api_count_cache, cache, last_request, request_lock, cache_file,
                    writers, threadVars, fetchVars, histVars >>

NextPeriod ==
    \/ NextLedger
    \/ PeriodTurns

SpecPeriod == InitLedger /\ [][NextPeriod]_vars

TypeOK ==
    /\ Count \in 0..MAX_MONTHLY_CALLS
    /\ pc \in [Threads -> {"idle", "check", "rate", "sleep", "fetch",
                           "precheck", "pool", "store", "done", "raised"}]
    /\ fpc \in [Agents -> {"idle", "wcheck", "check", "inc", "incret", "done"}]

AgentsOf(t) == {a \in Agents : a[1] = t}

\* ------------------------------------------------------------------------
\* C1: in every reachable state the call_count of every period in the table
\* lies between 0 and the cap, whatever the interleaving of the callers of
\* increment_api_call_count.
\* ------------------------------------------------------------------------
C1_CountWithinCap ==
    \A m \in DOMAIN api_call_counter :
        api_call_counter[m] >= 0 /\ api_call_counter[m] <= MAX_MONTHLY_CALLS

\* the cap was reached by an increment and a later caller was refused
C1_Witness == Count = MAX_MONTHLY_CALLS /\ incOk >= 1 /\ incNo >= 1

\* ------------------------------------------------------------------------
\* C2: of N increment calls made when M increments remain below the cap,
\* exactly min(N, M) succeed and raise the count by that number, the others
\* are refused and leave it alone; a call succeeds iff the count it
\* observed in its UPDATE was strictly below the cap.
\* ------------------------------------------------------------------------
C2_Step ==
    /\ \A a \in Agents :
          (fpc[a] = "inc" /\ fpc'[a] = "incret") =>
              /\ fsucc'[a] <=> (Count < MAX_MONTHLY_CALLS)
              /\ Count' = IF fsucc'[a] THEN Count + 1 ELSE Count
    /\ incOk' = Min(incOk' + incNo', MAX_MONTHLY_CALLS - ledger0)
    /\ Count' = ledger0 + incOk'

C2_ExactlyM == [][C2_Step]_vars

\* N = 3 callers have all returned, M = 1: one success, two refusals
C2_Witness ==
    /\ crashes = 0
    /\ incOk >= 1 /\ incNo >= 1
    /\ incOk + incNo = MaxLedgerCalls
    /\ \A a \in Agents : fpc[a] = "idle"

\* ------------------------------------------------------------------------
\* C10 as claimed: after a crash and restart in the same period,
\* get_monthly_api_call_count returns the number of increment calls that had
\* returned True before the crash (on top of the count the model started with).
\* ------------------------------------------------------------------------
C10_Original ==
    [][crashes' = crashes + 1 =>
          get_monthly_api_call_count(api_call_counter', month_year')
              = ledger0 + incTrue]_vars

\* C10 as amended: after the restart the count is the number of increments
\* committed before the crash; it is never below the number of calls that
\* returned True, and exceeds it only by increments that were committed by
\* calls that had not returned when the process died.
C10_Step ==
    crashes' = crashes + 1 =>
        LET after == get_monthly_api_call_count(api_call_counter', month_year')
            inflight == Cardinality({a \in Agents : fpc[a] = "incret" /\ fsucc[a]})
        IN /\ after = ledger0 + incOk
           /\ after >= ledger0 + incTrue
           /\ crashes = 0 => after = ledger0 + incTrue + inflight

C10_Amended == [][C10_Step]_vars

\* a restart has lost the return of a committed increment
C10_Witness ==
    /\ crashes > 0
    /\ incOk > incTrue
    /\ \A a \in Agents : fpc[a] # "incret"
    /\ Count = ledger0 + incOk

\* ------------------------------------------------------------------------
\* C11 as claimed: get_portal_listings_sf and get_portal_listings_stanford
\* never raise to their caller, whatever the adapter and the counter table
\* do: no call ends in an exception.
\* ------------------------------------------------------------------------
C11_Original == \A t \in Threads : pc[t] # "raised"

C20_Original ==
    \A c \in Callers : limiter[c].waited <= MIN_REQUEST_INTERVAL

\* ------------------------------------------------------------------------
\* C3 as claimed: the requests _fetch has sent to the API and that were
\* answered, added to the calls already on the ledger when the model starts,
\* never exceed MAX_MONTHLY_CALLS within the period.
\* ------------------------------------------------------------------------
C3_Original == ledger0 + httpOk <= MAX_MONTHLY_CALLS

\* ------------------------------------------------------------------------
\* C4 as claimed: with one call left on the ledger, of two _fetch calls of
\* one pool that have both returned, at most one returns the answer of the
\* API; the other has seen the exhausted budget and returns the empty list.
\* ------------------------------------------------------------------------
C4_Original ==
    \A a, b \in Agents :
        ( /\ a # b
          /\ ledger0 = MAX_MONTHLY_CALLS - 1
          /\ fpc[a] = "done" /\ fpc[b] = "done"
          /\ fout[a] = "ok" )
        => (fout[b] # "ok" /\ fres[b] = << >>)

\* ------------------------------------------------------------------------
\* C5: _fetch sends its request only after reading a count below the cap;
\* the ledger moves only in the increment that follows a good response, by
\* one; a request that fails returns the empty list and leaves the ledger as
\* it was.
\* ------------------------------------------------------------------------
C5_Step ==
    /\ api_call_counter' # api_call_counter =>
          \E a \in Agents :
              /\ fpc[a] = "inc" /\ fout[a] = "ok" /\ fpc'[a] = "done"
              /\ Count' = Count + 1
    /\ \A a \in Agents :
          (fpc[a] = "check" /\ fout'[a] \in {"ok", "failed"}) =>
              /\ api_key
              /\ FetchSeen[1] < MAX_MONTHLY_CALLS
    /\ \A a \in Agents :
          (fpc[a] = "check" /\ fout'[a] = "failed") =>
              /\ fpc'[a] = "done"
              /\ fres'[a] = << >>
              /\ api_call_counter' = api_call_counter

C5_CheckThenIncrement == [][C5_Step]_vars

\* a request has failed and its _fetch has returned
C5_Witness ==
    \E a \in Agents : fpc[a] = "done" /\ fout[a] = "failed" /\ Count = ledger0 + incOk

\* ------------------------------------------------------------------------
\* C6 as claimed: a read of a scope whose in-memory entry is younger than
\* CACHE_TTL sends no request (it is served from the cache).
\* ------------------------------------------------------------------------
C6_Original ==
    \A t \in Threads :
        readHit[t] \in {"fresh", "fresh_empty"} =>
            \A a \in AgentsOf(t) : fout[a] \notin {"ok", "failed"}

\* C6 as amended: a read of a scope whose in-memory entry is younger than
\* CACHE_TTL and holds at least one listing returns the cached listings at
\* once: no fetch is started, the ledger is not touched.
C6_Step ==
    /\ \A t \in Threads, r \in Regions :
          ( /\ calls' = calls + 1
            /\ region'[t] = r
            /\ pc[t] \in {"idle", "done"}
            /\ CacheStateAt(cache, CacheKey(r), now) = "fresh" )
          => /\ pc'[t] = "done"
             /\ ret'[t] = Take(cache[CacheKey(r)][1], MAX_APARTMENTS_RETURN)
             /\ api_call_counter' = api_call_counter
             /\ httpOk' = httpOk
             /\ \A a \in AgentsOf(t) : fpc'[a] = "idle"
    /\ \A t \in Threads : readHit'[t] = "fresh" => pc'[t] = "done"

C6_Amended == [][C6_Step]_vars

\* a read was served from a fresh entry
C6_Witness ==
    \E t \in Threads :
        readHit[t] = "fresh" /\ pc[t] = "done" /\ ret[t] # << >> /\ gate[t] = None

\* ------------------------------------------------------------------------
\* C7: when the entry of the scope is stale or missing and the count read at
\* the limit check of the read is at the cap, the read returns the listings
\* of the previous generation (the empty list when there is none): no fetch
\* is started, the ledger and the cache stay as they were.
\* ------------------------------------------------------------------------
C7_Step ==
    \A t \in Threads :
        ( /\ pc[t] = "check" /\ pc'[t] # "check"
          /\ crashes' = crashes
          /\ FetchSeen[1] >= MAX_MONTHLY_CALLS )
        => LET k == CacheKey(region[t]) IN
           /\ pc'[t] = "done"
           /\ ret'[t] = Take(IF k \in DOMAIN cache THEN cache[k][1] ELSE << >>,
                             MAX_APARTMENTS_RETURN)
           /\ cache' = cache
           /\ api_call_counter' = api_call_counter
           /\ httpOk' = httpOk
           /\ \A a \in AgentsOf(t) : fpc'[a] = "idle"

C7_ExhaustedServesStale == [][C7_Step]_vars

\* a stale entry was served because the budget was exhausted
C7_Witness ==
    \E t \in Threads :
        /\ readHit[t] = "stale" /\ gate[t] = "exhausted"
        /\ pc[t] = "done" /\ ret[t] # << >>

\* ------------------------------------------------------------------------
\* C8 as claimed: a refresh (entry stale or missing, budget below the cap)
\* ends by overwriting the entry of the scope with its result and the
\* current time.
\* ------------------------------------------------------------------------
StoreStep(t) == ReadyToStore(t) /\ pc'[t] = "done" /\ crashes' = crashes

C8_Original ==
    [][\A t \in Threads :
          StoreStep(t) =>
              LET k == CacheKey(region[t]) IN
              /\ k \in DOMAIN cache'
              /\ cache'[k] = << Refreshed(t), now >>]_vars

\* C8 as amended: with the entry stale or missing and the count below the
\* cap, the read goes on to fetch, normalize and score; the result
\* overwrites the entry and resets its timestamp when it holds at least one
\* listing or the scope has no entry yet; an empty result for a scope that
\* has an entry leaves the entry and its timestamp alone and the old
\* listings are returned.
C8_Step ==
    \A t \in Threads :
        LET k == CacheKey(region[t]) IN
        /\ ( /\ pc[t] = "check" /\ pc'[t] # "check"
             /\ crashes' = crashes
             /\ FetchSeen[1] < MAX_MONTHLY_CALLS )
           => pc'[t] = "rate"
        /\ StoreStep(t) =>
              IF Refreshed(t) # << >> \/ k \notin DOMAIN cache
              THEN /\ k \in DOMAIN cache'
                   /\ cache'[k] = << Refreshed(t), now >>
                   /\ ret'[t] = Take(Refreshed(t), MAX_APARTMENTS_RETURN)
                   /\ Refreshed(t) # << >> => CacheStateAt(cache', k, now) = "fresh"
              ELSE /\ cache' = cache
                   /\ ret'[t] = Take(cache[k][1], MAX_APARTMENTS_RETURN)

C8_Amended == [][C8_Step]_vars

\* a refresh has replaced a stale entry by the listings it fetched
C8_Witness ==
    \E t \in Threads :
        LET k == CacheKey(region[t]) IN
        /\ pc[t] = "done" /\ readHit[t] = "stale" /\ gate[t] = "capacity"
        /\ k \in DOMAIN cache
        /\ cache[k][1] # << >> /\ cache[k][1] # SampleEntries
        /\ ret[t] = cache[k][1]

\* ------------------------------------------------------------------------
\* C9 as claimed: the first read after a start of a scope that the cache
\* file holds with an age below CACHE_TTL sends no request.
\* ------------------------------------------------------------------------
C9_Original ==
    \A t \in Threads :
        bootHit[t] \in {"fresh", "fresh_empty"} =>
            \A a \in AgentsOf(t) : fout[a] # "ok" /\ fout[a] # "failed"

\* C9 as amended: the first read after a start of a scope that the cache
\* file holds with at least one listing and an age below CACHE_TTL returns
\* the listings of the file: no fetch is started, the ledger is not touched.
C9_Step ==
    /\ \A t \in Threads, r \in Regions :
          ( /\ calls' = calls + 1
            /\ region'[t] = r
            /\ pc[t] \in {"idle", "done"}
            /\ CacheKey(r) \notin readSinceBoot
            /\ FileStateAt(bootFile, CacheKey(r), now) = "fresh" )
          => /\ pc'[t] = "done"
             /\ ret'[t] = Take(bootFile.data[CacheKey(r)].entries, MAX_APARTMENTS_RETURN)
             /\ api_call_counter' = api_call_counter
             /\ httpOk' = httpOk
             /\ \A a \in AgentsOf(t) : fpc'[a] = "idle"
    /\ \A t \in Threads : bootHit'[t] = "fresh" => pc'[t] = "done"

C9_Amended == [][C9_Step]_vars

\* after a restart, a first read was served from the file
C9_Witness ==
    \E t \in Threads :
        /\ crashes > 0
        /\ bootHit[t] = "fresh" /\ pc[t] = "done" /\ ret[t] # << >>
        /\ httpOk = 0 /\ Count = ledger0

\* the listing has been scored with a price and a bedroom count
Scored == scorer # None /\ IsScoreable(apt)
ScoredMarket == MarketRateOf(get_neighborhood_market_rates, apt)
ScoredDiscount == Val(apt.discount_pct)
ScoredBonus == IF scorer = "portal" THEN PortalBonus(apt) ELSE ScraperBonus(apt)

NearestInts(d10) ==
    { k \in (IntOf(d10) - 1)..(IntOf(d10) + 1) :
        (10 * k - d10 <= 5) /\ (d10 - 10 * k <= 5) }

\* ------------------------------------------------------------------------
\* C17 as claimed: for a listing scored with a price and a bedroom count,
\* deal_score = clamp(50 + round(discountPct) + amenityBonus, 0, 100), round
\* being rounding to the nearest integer.
\* ------------------------------------------------------------------------
C17_Original ==
    Scored =>
        \E r \in NearestInts(ScoredDiscount) :
            Val(apt.deal_score) = Clamp(50 + r + ScoredBonus)

\* the scoreable listings of the batch of the last call, the external calls
\* it issued, and the listings it returned with the placeholder text
NumScoreable == Len(SelectSeq(Batch(deal.batch), IsScoreable))
NumAsked == Len(deal.asked)
NumPlaceholders ==
    Cardinality({i \in 1..Len(deal.ret) : deal.ret[i].deal_analysis = Placeholder})
AskedOncePerListing ==
    \A i, j \in 1..Len(deal.asked) : deal.asked[i] = deal.asked[j] => i = j

\* ------------------------------------------------------------------------
\* C13 as claimed: a call of analyze_apartment_deals on a batch with V
\* scoreable listings issues exactly min(V, AI_ANALYSIS_TOP_N) external
\* calls, one per selected listing, and the other V - min(V, N) listings get
\* the placeholder text.
\* ------------------------------------------------------------------------
C13_Original ==
    deal.op = "analyze" =>
        /\ NumAsked = Min(NumScoreable, AI_ANALYSIS_TOP_N)
        /\ AskedOncePerListing
        /\ NumPlaceholders = NumScoreable - Min(NumScoreable, AI_ANALYSIS_TOP_N)

\* C13 as amended: never more than AI_ANALYSIS_TOP_N external calls are
\* issued, at most one per listing; with the client configured, a call that
\* returns has issued exactly min(V, N), for the N listings it returns
\* without placeholder; without the client, or when the call raises, none
\* is issued; a call that returns gives the placeholder to the other
\* V - min(V, N) listings.
C13_Amended ==
    deal.op = "analyze" =>
        /\ NumAsked <= AI_ANALYSIS_TOP_N
        /\ AskedOncePerListing
        /\ (anthropic /\ ~deal.raised) =>
              /\ NumAsked = Min(NumScoreable, AI_ANALYSIS_TOP_N)
              /\ \A i \in 1..Len(deal.ret) :
                    (deal.ret[i].deal_analysis # Placeholder)
                        <=> (\E j \in 1..NumAsked : deal.asked[j] = deal.ret[i].id)
        /\ (~anthropic \/ deal.raised) => NumAsked = 0
        /\ ~deal.raised =>
              /\ Len(deal.ret) = NumScoreable
              /\ NumPlaceholders = NumScoreable - Min(NumScoreable, AI_ANALYSIS_TOP_N)

\* a batch of more than N scoreable listings was analysed with the client
\* configured: N calls, the rest has the placeholder
C13_Witness ==
    /\ deal.op = "analyze" /\ anthropic /\ ~deal.raised
    /\ NumScoreable > AI_ANALYSIS_TOP_N
    /\ NumAsked = AI_ANALYSIS_TOP_N
    /\ NumPlaceholders = NumScoreable - AI_ANALYSIS_TOP_N

\* the listing of the first request of the last call, as returned, and the
\* score the first pass gave it
FirstAsked == deal.ret[CHOOSE i \in 1..Len(deal.ret) : deal.ret[i].id = deal.asked[1]]
HeuristicScore(a) ==
    compute_discount_and_score(Batch(deal.batch)[a.id], get_neighborhood_market_rates).deal_score

\* ------------------------------------------------------------------------
\* C14 as claimed: analyze_apartment_deals never raises; every listing it
\* returns has a non-empty deal_analysis; a listing whose enrichment call
\* raised keeps its heuristic score and has the fallback text.
\* ------------------------------------------------------------------------
C14_Original ==
    deal.op = "analyze" =>
        /\ ~deal.raised
        /\ \A i \in 1..Len(deal.ret) :
              deal.ret[i].deal_analysis # None /\ deal.ret[i].deal_analysis # ""
        /\ (deal.asked # << >> /\ deal.plan.raises) =>
              /\ FirstAsked.deal_analysis = "AI analysis unavailable"
              /\ FirstAsked.deal_score = HeuristicScore(FirstAsked)

\* ------------------------------------------------------------------------
\* C15 as claimed: when analyze_apartment_deals_cached is called again on
\* the batch it has just analysed, within the TTL of that call, no external
\* call is issued and every listing has the score, discount and analysis
\* of the first call.
\* ------------------------------------------------------------------------
C15_Original ==
    [][( /\ calls' = calls + 1
         /\ deal'.op = "cached" /\ deal.op = "cached"
         /\ deal'.batch = deal.batch
         /\ ~deal.raised /\ deal.hits = 0
         /\ now - deal.at <= APARTMENT_ANALYSIS_CACHE_TTL )
       => /\ deal'.asked = << >>
          /\ ~deal'.raised
          /\ \A i \in 1..Len(deal.apts) :
                /\ deal'.apts[i].deal_score = deal.apts[i].deal_score
                /\ deal'.apts[i].discount_pct = deal.apts[i].discount_pct
                /\ deal'.apts[i].deal_analysis = deal.apts[i].deal_analysis]_vars

\* ------------------------------------------------------------------------
\* C18 as claimed: the deal_score of every listing returned by the deal
\* analysis (heuristic, enriched or served from the analysis cache) is an
\* integer between 0 and 100.
\* ------------------------------------------------------------------------
C18_Original ==
    \A i \in 1..Len(deal.ret) :
        /\ deal.ret[i].deal_score # Nothing
        /\ Val(deal.ret[i].deal_score) >= 0
        /\ Val(deal.ret[i].deal_score) <= 100

\* ------------------------------------------------------------------------
\* C19
\* ------------------------------------------------------------------------
\* the strategies in the order of the claim, the sample last
Strategies == << "json", "ldjson", "items", "links", "sample" >>

\* what a strategy yields for the page, taken alone
YieldOf(g, src) ==
    CASE src = "json" -> Out(src, g.json)
      [] src = "ldjson" -> Out(src, IF g.fetch THEN g.ld ELSE 0)
      [] src = "items" -> Out(src, IF g.fetch THEN g.parsed ELSE 0)
      [] src = "links" -> Out(src, IF g.fetch THEN g.linked ELSE 0)
      [] src = "sample" -> get_sample_apartments

\* the first strategy, in order, that yields a listing
FirstYielding(g) ==
    Strategies[CHOOSE i \in 1..Len(Strategies) :
                  /\ YieldOf(g, Strategies[i]) # << >>
                  /\ \A j \in 1..(i - 1) : YieldOf(g, Strategies[j]) = << >>]

\* the strategies are tried in the order of the list, none twice
TriedInOrder ==
    \A i, j \in 1..Len(scrape.tried) :
        i < j =>
            \E a, b \in 1..Len(Strategies) :
                a < b /\ Strategies[a] = scrape.tried[i] /\ Strategies[b] = scrape.tried[j]

\* C19: the strategies are tried in strict order (JSON endpoint, JSON-LD,
\* list items, links, sample), the result of a scrape is the output of the
\* first strategy that yields at least one listing, and the sample is
\* returned only when every earlier strategy yielded none.
C19_Original ==
    /\ TriedInOrder
    /\ scrape.pc = "done" =>
          /\ scrape.result =
                Take(YieldOf(scrape.page, FirstYielding(scrape.page)), scrape.max_listings)
          /\ scrape.result = get_sample_apartments =>
                \A i \in 1..4 : YieldOf(scrape.page, Strategies[i]) = << >>

\* ------------------------------------------------------------------------
\* C21
\* ------------------------------------------------------------------------
\* caller c returns from _rate_limit in this step
LimiterReturns(c) == limiter[c].pc # "out" /\ limiter'[c].pc = "out"

\* C21: for each region, under any interleaving of callers, a return of
\* _rate_limit(region) comes at least MIN_REQUEST_INTERVAL after the return
\* before it for the same region (the time _last_request holds for it).
C21_ReturnsApart ==
    [][\A c \in Callers :
          LimiterReturns(c) /\ limiter[c].region \in DOMAIN last_request =>
              /\ now' - last_request[limiter[c].region] >= MIN_REQUEST_INTERVAL
              /\ last_request'[limiter[c].region] = now']_vars

\* two callers have returned for one region, the later one after a sleep
C21_Witness ==
    \E c, d \in Callers :
        /\ c # d
        /\ limiter[c].pc = "out" /\ limiter[d].pc = "out"
        /\ limiter[c].since >= StartTime /\ limiter[d].since >= StartTime
        /\ limiter[c].region = limiter[d].region
        /\ limiter[c].waited > 0
        /\ LastRequest(limiter[c].region) = limiter[c].since + limiter[c].waited
        /\ limiter[d].since + limiter[d].waited + MIN_REQUEST_INTERVAL
              = limiter[c].since + limiter[c].waited

\* ------------------------------------------------------------------------
\* C22
\* ------------------------------------------------------------------------
\* the city workers of the pool of thread t that the API has answered
PoolAnswered(t) == { c \in Cities : fout[<< t, c >>] = "ok" }

\* the ledger count when the pool of thread t started: the count now, less
\* the increments its workers have committed
PoolStartCount(t) == Count - Cardinality({ c \in Cities : fsucc[<< t, c >>] })

\* C22 as claimed: each pool worker of the Stanford refresh checks the
\* budget against the current ledger count just before its call, so when
\* exactly one call remains as the pool starts, at most one of the two city
\* workers sends an API request.
C22_Original ==
    \A t \in Threads :
        pc[t] = "pool" /\ PoolStartCount(t) = MAX_MONTHLY_CALLS - 1 =>
            Cardinality(PoolAnswered(t)) <= 1

\* ------------------------------------------------------------------------
\* C23
\* ------------------------------------------------------------------------
\* rows of the table for periods other than the current one
OldRows == DOMAIN api_call_counter \ {month_year}

\* an increment_api_call_count commits in this step
LedgerCommits == incOk' # incOk \/ incNo' # incNo

\* C23 as claimed: after the period has changed, the next ledger operation
\* prunes the rows of every other period; the new period starts from count 0
\* and its row is created by the first increment. So once the table has a
\* row for the current period, it has no other row.
C23_Original ==
    /\ month_year \in DOMAIN api_call_counter => OldRows = {}
    /\ month_year \notin DOMAIN api_call_counter => Count = 0

\* C23 as amended: a change of period leaves the table alone and the count
\* of the new period is 0; an increment creates the row of the current
\* period when it is missing and leaves the rows of the other periods as
\* they are; those rows are deleted when the process starts again.
C23_Step ==
    /\ month_year' # month_year =>
          /\ api_call_counter' = api_call_counter
          /\ Count' = 0
    /\ LedgerCommits =>
          /\ month_year \in DOMAIN api_call_counter'
          /\ Count' = IF Count < MAX_MONTHLY_CALLS THEN Count + 1 ELSE Count
          /\ OldRows' = OldRows
          /\ \A k \in OldRows : api_call_counter'[k] = api_call_counter[k]
    /\ crashes' = crashes + 1 =>
          /\ OldRows' = {}
          /\ Count' = Count

C23_Amended == [][C23_Step]_vars

\* the period has changed, an increment has created the row of the new
\* period, and the row of the period before is still in the table
C23_Witness ==
    /\ month_year = LaterMonth
    /\ Count >= 1
    /\ OldRows # {}
    /\ crashes = 0

\* ------------------------------------------------------------------------
\* C24
\* ------------------------------------------------------------------------
\* C24: a refresh that stores its listings starts a background writer and
\* returns with the file untouched; a read in progress returns whether the
\* writers run, fail or never run at all.
C24_NeverWaits ==
    /\ [][\A t \in Threads :
             pc[t] \notin Resting /\ pc'[t] = "done" /\ cache' # cache =>
                 /\ BagCardinality(writers') = BagCardinality(writers) + 1
                 /\ cache_file' = cache_file]_vars
    /\ \A t \in Threads : (pc[t] = "check") ~> (pc[t] = "done")

\* a refresh has returned its listings while its writer has not written
C24_Witness ==
    \E t \in Threads :
        /\ pc[t] = "done" /\ ret[t] # << >>
        /\ gate[t] = "capacity"
        /\ writers # EmptyBag
        /\ cache_file = NoFile

\* ------------------------------------------------------------------------
\* C25
\* ------------------------------------------------------------------------
\* the returned listings that were not selected for enrichment
Unselected(i) == deal.ret[i].deal_analysis = Placeholder

\* C25 as claimed: the listings analyze_apartment_deals selects for
\* enrichment are the AI_ANALYSIS_TOP_N with the highest discount_pct among
\* the returned ones: no unselected listing has a strictly higher
\* discount_pct than a selected one, discounts of 0 and below included.
C25_Original ==
    deal.op = "analyze" /\ ~deal.raised =>
        \A i, j \in 1..Len(deal.ret) :
            ~Unselected(i) /\ Unselected(j) =>
                Val(deal.ret[j].discount_pct) <= Val(deal.ret[i].discount_pct)

\* ------------------------------------------------------------------------
\* C26
\* ------------------------------------------------------------------------
\* C26 as claimed: an enrichment call never changes a listing's deal_score:
\* whatever the response, every listing analyze_apartment_deals returns has
\* the score _compute_discount_and_score gave it, and its discount.
C26_Original ==
    deal.op = "analyze" /\ ~deal.raised =>
        \A i \in 1..Len(deal.ret) :
            /\ deal.ret[i].deal_score = HeuristicScore(deal.ret[i])
            /\ deal.ret[i].discount_pct =
                  compute_discount_and_score(Batch(deal.batch)[deal.ret[i].id],
                                             get_neighborhood_market_rates).discount_pct

\* ------------------------------------------------------------------------
\* C27
\* ------------------------------------------------------------------------
\* C27 as claimed: once _fetch has had an answer from the API and has
\* incremented the ledger, the shared count cache holds the count after the
\* increment, so the next _get_cached_api_count, even within
\* COUNT_CACHE_TTL, returns the count of the ledger.
C27_Original ==
    [][\A a \in Agents :
          fpc[a] = "inc" /\ fout[a] = "ok" /\ fpc'[a] = "done" /\ fsucc'[a] =>
              /\ api_count_cache'[1] = Count'
              /\ get_cached_api_count(api_count_cache', api_call_counter', month_year', now')[1]
                    = Count']_vars

\* ------------------------------------------------------------------------
\* C28
\* ------------------------------------------------------------------------
\* the scopes that hold at least one listing
NonEmptyScopes(c) == { k \in DOMAIN c : c[k][1] # << >> }

\* a refresh that yields nothing for a scope that holds listings leaves the
\* entry and its timestamp alone and returns the listings of the entry
EmptyRefreshKeeps ==
    \A t \in Threads :
        LET k == CacheKey(region[t]) IN
        StoreStep(t) /\ Refreshed(t) = << >> /\ k \in NonEmptyScopes(cache) =>
            /\ cache' = cache
            /\ ret'[t] = Take(cache[k][1], MAX_APARTMENTS_RETURN)

\* C28 as claimed: a refresh that yields no listings never replaces a
\* non-empty entry, never resets its timestamp and returns the previous
\* generation; once a scope holds a non-empty generation it holds one in
\* every later state.
C28_Original ==
    [][/\ EmptyRefreshKeeps
       /\ NonEmptyScopes(cache) \subseteq NonEmptyScopes(cache')]_vars

\* C28 as amended: the same, for every later state of the running process;
\* a restart rebuilds the cache from the file, and a generation that no
\* writer has put there is gone.
C28_Step ==
    /\ EmptyRefreshKeeps
    /\ crashes' = crashes => NonEmptyScopes(cache) \subseteq NonEmptyScopes(cache')
    /\ crashes' = crashes + 1 =>
          NonEmptyScopes(cache') = NonEmptyScopes(load_persistent_cache(cache_file))

C28_Amended == [][C28_Step]_vars

\* a refresh with capacity found nothing and has returned the listings of
\* the stale entry, whose timestamp is the old one
C28_Witness ==
    \E t \in Threads :
        LET k == CacheKey(region[t]) IN
        /\ pc[t] = "done" /\ readHit[t] = "stale" /\ gate[t] = "capacity"
        /\ k \in NonEmptyScopes(cache)
        /\ cache[k][2] < StartTime
        /\ ret[t] = Take(cache[k][1], MAX_APARTMENTS_RETURN)

\* ------------------------------------------------------------------------
\* C29
\* ------------------------------------------------------------------------
\* C29 as claimed: once every background writer started by
\* _save_persistent_cache has finished, the file holds the in-memory cache
\* as it is; the snapshot of an earlier refresh never overwrites the
\* snapshot of a later one.
C29_Original ==
    writers = EmptyBag /\ cache_file # bootFile =>
        cache_file = JsonFile(SaveSnapshot(cache))

\* ------------------------------------------------------------------------
\* C30
\* ------------------------------------------------------------------------
\* the discount _compute_discount_and_score gives the listing of the batch
\* that a has come from
OwnDiscount(a) ==
    compute_discount_and_score(Batch(deal.batch)[a.id],
                               get_neighborhood_market_rates).discount_pct

\* C30 as claimed: what a listing receives from the analysis cache has been
\* computed for that same listing, also when several listings of a batch
\* or of successive batches have one cache key: after a call of
\* analyze_apartment_deals_cached every scoreable listing has its own
\* discount.
C30_Original ==
    deal.op = "cached" /\ ~deal.raised =>
        \A i \in 1..Len(deal.apts) :
            IsScoreable(deal.apts[i]) => deal.apts[i].discount_pct = OwnDiscount(deal.apts[i])

====
